---- MODULE Spec2Model ----
(***************************************************************************)
(* A model of pagser's reflective struct binder (parse.go): the entry      *)
(* check of ParseSelection, the recursive walk doParse / doParsePointer /  *)
(* doParseStruct / doParseSlice, the function resolution of                *)
(* findAndExecFunc / findMethod / execMethod, the value caster             *)
(* setRefectValue (and its later revision setFieldValue), and the          *)
(* expression cache mapTags.                                               *)
(*                                                                         *)
(* Go strings are sequences of one-character strings, so that trimming and *)
(* number parsing are computed and not assumed.  Go values are records     *)
(* with a kind field k.  The target of a bind is a tree of such values; a  *)
(* place in it is a path.  A slice that doParseSlice has made but not yet  *)
(* stored lives in its frame (buf) until val.Set(slice).                   *)
(***************************************************************************)
EXTENDS Integers, Sequences, FiniteSets, TLC

VARIABLES
    binds,      \* bind id -> the state of that ParseSelection call
    mapTags,    \* engine id -> expression cache (raw tag -> parsed tag)
    tagPtrs,    \* engine id -> raw tag -> the bind whose newTag call has made
                \* the *tagTokenizer that the cache holds (0: an earlier bind)
    mapFuncs,   \* the function registry: name -> behaviour of the CallFunc
    registered, \* the RegisterFunc calls that have returned, in their order
    schema,     \* struct name -> fields, tags and method sets of that Go type
    doc,        \* the document: node id (document order) -> node
    Config      \* the engine's Config (CastError) and the family of the run

vars == <<binds, mapTags, tagPtrs, mapFuncs, registered, schema, doc, Config>>

-----------------------------------------------------------------------------
(* Bounds of the model *)

MaxNodes == 2      \* li elements in the document: 0..MaxNodes
MaxDepth == 10     \* nested doParse calls that the goroutine's stack holds
MaxRegs == 2       \* RegisterFunc calls while a bind is under way
MaxPre == 1        \* tagged struct fields processed before the field of interest
MaxPrior == 2      \* length of a slice the caller put in the target beforehand

Binds == 1..3
Engines == 1..2

-----------------------------------------------------------------------------
(* Go strings *)

Str(s) == [k |-> "string", v |-> s]
Space == " "

RECURSIVE TrimLeft(_)
TrimLeft(s) ==
    IF s # <<>> /\ Head(s) = Space THEN TrimLeft(Tail(s)) ELSE s

RECURSIVE TrimRight(_)
TrimRight(s) ==
    IF s # <<>> /\ s[Len(s)] = Space THEN TrimRight(SubSeq(s, 1, Len(s) - 1)) ELSE s

\* strings.TrimSpace
TrimSpace(s) == TrimRight(TrimLeft(s))

Digits == <<"0", "1", "2", "3", "4", "5", "6", "7", "8", "9">>
IsDigit(c) == \E d \in 1..10 : Digits[d] = c
DigitVal(c) == (CHOOSE d \in 1..10 : Digits[d] = c) - 1

RECURSIVE ParseDigits(_, _)
ParseDigits(s, acc) ==
    IF s = <<>> THEN acc ELSE ParseDigits(Tail(s), acc * 10 + DigitVal(Head(s)))

AllDigits(s) == s # <<>> /\ \A i \in 1..Len(s) : IsDigit(s[i])

\* strconv.ParseInt(s, 0, 0) restricted to decimal literals: [ok, n]
ParseInt(s) ==
    IF AllDigits(s) THEN [ok |-> TRUE, n |-> ParseDigits(s, 0)]
    ELSE IF s # <<>> /\ Head(s) \in {"-", "+"} /\ AllDigits(Tail(s))
         THEN [ok |-> TRUE,
               n |-> IF Head(s) = "-" THEN 0 - ParseDigits(Tail(s), 0)
                     ELSE ParseDigits(Tail(s), 0)]
         ELSE [ok |-> FALSE, n |-> 0]

RECURSIVE Itoa(_)
Itoa(n) ==
    IF n < 0 THEN <<"-">> \o Itoa(0 - n)
    ELSE IF n < 10 THEN <<Digits[n + 1]>>
    ELSE Itoa(n \div 10) \o <<Digits[(n % 10) + 1]>>

\* strconv.ParseBool
ParseBool(s) ==
    IF s \in {<<"1">>, <<"t">>, <<"T">>, <<"t", "r", "u", "e">>,
              <<"T", "R", "U", "E">>, <<"T", "r", "u", "e">>}
    THEN [ok |-> TRUE, b |-> TRUE]
    ELSE IF s \in {<<"0">>, <<"f">>, <<"F">>, <<"f", "a", "l", "s", "e">>,
                   <<"F", "A", "L", "S", "E">>, <<"F", "a", "l", "s", "e">>}
         THEN [ok |-> TRUE, b |-> FALSE]
         ELSE [ok |-> FALSE, b |-> FALSE]

-----------------------------------------------------------------------------
(* Go types and values *)

\* A type is [kind, elem, name]: elem is the element type of a pointer or a
\* slice, name the name of a struct type (its definition is schema[name]).
Scalar(kind) == [kind |-> kind]
StructT(name) == [kind |-> "struct", name |-> name]
PtrT(elem) == [kind |-> "ptr", elem |-> elem]
SliceT(elem) == [kind |-> "slice", elem |-> elem]

IntKinds == {"int", "int8", "int16", "int32", "int64"}
UintKinds == {"uint", "uint8", "uint16", "uint32", "uint64", "uintptr"}
FloatKinds == {"float32", "float64"}

\* A value is a record with its kind in k:
\*   bool, the integer and float kinds, string    [k, v]
\*   struct                                       [k, name, f: field values]
\*   ptr                                          [k, ty, nil, e: the pointee]
\*   slice                                        [k, ty, nil, e: the elements]
\*   nil (the nil interface), sel (a selection)   [k] / [k, v: node ids]
Bool(b) == [k |-> "bool", v |-> b]
Num(kind, n) == [k |-> kind, v |-> n]
NilIface == [k |-> "nil"]
Sel(nodes) == [k |-> "sel", v |-> nodes]
NilPtr(elem) == [k |-> "ptr", ty |-> PtrT(elem), nil |-> TRUE, e |-> NilIface]
PtrTo(elem, v) == [k |-> "ptr", ty |-> PtrT(elem), nil |-> FALSE, e |-> v]
NilSlice(elem) == [k |-> "slice", ty |-> SliceT(elem), nil |-> TRUE, e |-> <<>>]
SliceOf(elem, vs) == [k |-> "slice", ty |-> SliceT(elem), nil |-> FALSE, e |-> vs]
StructV(name, fs) == [k |-> "struct", name |-> name, f |-> fs]

\* reflect.TypeOf
TypeOf(v) ==
    IF v.k \in {"ptr", "slice"} THEN v.ty
    ELSE IF v.k = "struct" THEN StructT(v.name)
    ELSE Scalar(v.k)

NumField(name) == Len(schema[name].fields)

\* reflect.Zero / reflect.New(t).Elem()
RECURSIVE Zero(_)
Zero(t) ==
    CASE t.kind = "bool" -> Bool(FALSE)
      [] t.kind = "string" -> Str(<<>>)
      [] t.kind = "ptr" -> NilPtr(t.elem)
      [] t.kind = "slice" -> NilSlice(t.elem)
      [] t.kind = "struct" ->
            StructV(t.name, [i \in 1..NumField(t.name) |-> Zero(schema[t.name].fields[i].ty)])
      [] OTHER -> Num(t.kind, 0)

\* A place inside a value: 0 steps through a pointer, i >= 1 into field i of
\* a struct or element i of a slice (reflect's Elem, Field, Index).
RECURSIVE GetAt(_, _)
GetAt(v, path) ==
    IF path = <<>> THEN v
    ELSE IF v.k = "ptr" THEN GetAt(v.e, Tail(path))
    ELSE IF v.k = "struct" THEN GetAt(v.f[Head(path)], Tail(path))
    ELSE GetAt(v.e[Head(path)], Tail(path))

RECURSIVE SetAt(_, _, _)
SetAt(v, path, x) ==
    IF path = <<>> THEN x
    ELSE IF v.k = "ptr" THEN [v EXCEPT !.e = SetAt(v.e, Tail(path), x)]
    ELSE IF v.k = "struct"
         THEN [v EXCEPT !.f[Head(path)] = SetAt(v.f[Head(path)], Tail(path), x)]
         ELSE [v EXCEPT !.e[Head(path)] = SetAt(v.e[Head(path)], Tail(path), x)]

\* A place: root 0 is the target v of the bind, root j > 0 the slice that the
\* doParseSlice frame j has made and not yet stored.
Loc(root, path) == [root |-> root, path |-> path]
Sub(loc, step) == [loc EXCEPT !.path = Append(@, step)]

\* A reflect.Value of struct kind, as stackValues holds it.
StructVal(loc, name) == [loc |-> loc, name |-> name]

-----------------------------------------------------------------------------
(* The document and goquery's selections *)

\* A node is [label, parent, text]; node ids are positions in document order,
\* and a selection is an increasing sequence of node ids.
Node(label, parent, text) == [label |-> label, parent |-> parent, text |-> text]

\* body > (li > a)*n; the i-th a holds the text " i ".
DocOf(n) ==
    [j \in 1..(2 * n + 1) |->
        IF j = 1 THEN Node("body", 0, <<>>)
        ELSE IF j % 2 = 0 THEN Node("li", 1, <<>>)
        ELSE Node("a", j - 1, <<Space, Digits[((j - 1) \div 2) + 1], Space>>)]

RECURSIVE HasAncestorIn(_, _)
HasAncestorIn(n, nodes) ==
    LET p == doc[n].parent
    IN  p # 0 /\ (p \in nodes \/ HasAncestorIn(p, nodes))

Range(s) == {s[i] : i \in 1..Len(s)}

RECURSIVE SortedSeq(_)
SortedSeq(S) ==
    IF S = {} THEN <<>>
    ELSE LET m == CHOOSE x \in S : \A y \in S : x <= y
         IN  <<m>> \o SortedSeq(S \ {m})

\* Selection.Find: the descendants of the selected nodes that match the
\* selector (an element name here), in document order.
Find(sel, selector) ==
    SortedSeq({n \in DOMAIN doc :
                 doc[n].label = selector /\ HasAncestorIn(n, Range(sel))})

RECURSIVE NodeText(_, _)
NodeText(n, j) ==
    IF j > Len(doc) THEN <<>>
    ELSE (IF j = n \/ HasAncestorIn(j, {n}) THEN doc[j].text ELSE <<>>)
         \o NodeText(n, j + 1)

\* Selection.Text: the text of every selected node and its descendants.
RECURSIVE Text(_)
Text(sel) ==
    IF sel = <<>> THEN <<>> ELSE NodeText(Head(sel), 1) \o Text(Tail(sel))

-----------------------------------------------------------------------------
(* spf13/cast, as setRefectValue and setFieldValue use it.  Each ToXE gives *)
(* [ok, v]: v is what the library returns, also beside an error (ToX is    *)
(* ToXE with the error dropped).                                           *)

Ok(v) == [ok |-> TRUE, v |-> v]
Fail(v) == [ok |-> FALSE, v |-> v]

ToBoolE(i) ==
    CASE i.k = "bool" -> Ok(i.v)
      [] i.k = "nil" -> Ok(FALSE)
      [] i.k \in IntKinds -> Ok(i.v # 0)
      [] i.k = "string" -> IF ParseBool(i.v).ok THEN Ok(ParseBool(i.v).b) ELSE Fail(FALSE)
      [] OTHER -> Fail(FALSE)

ToInt64E(i) ==
    CASE i.k \in IntKinds \cup UintKinds \cup FloatKinds -> Ok(i.v)
      [] i.k = "string" -> IF ParseInt(i.v).ok THEN Ok(ParseInt(i.v).n) ELSE Fail(0)
      [] i.k = "bool" -> Ok(IF i.v THEN 1 ELSE 0)
      [] i.k = "nil" -> Ok(0)
      [] OTHER -> Fail(0)

\* errNegativeNotAllowed for a negative number
ToUint64E(i) ==
    LET r == ToInt64E(i)
    IN  IF r.ok /\ r.v < 0 THEN Fail(0) ELSE r

\* The model's strings hold no fraction or exponent, so ParseFloat accepts
\* what ParseInt accepts.
ToFloat64E(i) == ToInt64E(i)

ToStringE(i) ==
    CASE i.k = "string" -> Ok(i.v)
      [] i.k = "bool" -> Ok(IF i.v THEN <<"t", "r", "u", "e">> ELSE <<"f", "a", "l", "s", "e">>)
      [] i.k \in IntKinds \cup UintKinds -> Ok(Itoa(i.v))
      [] i.k = "nil" -> Ok(<<>>)
      [] OTHER -> Fail(<<>>)

\* strings.Fields
RECURSIVE Fields(_, _)
Fields(s, cur) ==
    IF s = <<>> THEN (IF cur = <<>> THEN <<>> ELSE <<Str(cur)>>)
    ELSE IF Head(s) = Space
         THEN (IF cur = <<>> THEN <<>> ELSE <<Str(cur)>>) \o Fields(Tail(s), <<>>)
         ELSE Fields(Tail(s), Append(cur, Head(s)))

\* The element conversion of the ToXSliceE functions over a slice input.
ElemsE(i, kind) ==
    LET conv(x) == CASE kind = "bool" -> ToBoolE(x)
                     [] kind = "string" -> ToStringE(x)
                     [] OTHER -> ToInt64E(x)
        val(x) == IF kind = "bool" THEN Bool(conv(x).v)
                  ELSE IF kind = "string" THEN Str(conv(x).v)
                  ELSE Num(kind, conv(x).v)
    IN  [ok |-> \A j \in 1..Len(i.e) : conv(i.e[j]).ok,
         v |-> [j \in 1..Len(i.e) |-> val(i.e[j])]]

\* cast.ToBoolSliceE, cast.ToIntSliceE: a failure returns []T{}
CastSliceE(i, kind) ==
    IF i.k = "slice" /\ i.ty.elem.kind = kind THEN Ok(i)
    ELSE IF i.k = "slice" /\ ElemsE(i, kind).ok
         THEN Ok(SliceOf(Scalar(kind), ElemsE(i, kind).v))
         ELSE Fail(SliceOf(Scalar(kind), <<>>))

\* toInt32SliceE, toInt64SliceE, toFloat32SliceE, toFloat64SliceE: pagser's
\* own, after cast.ToIntSliceE; a failure returns the zero value
toNumSliceE(i, kind) ==
    IF CastSliceE(i, kind).ok THEN CastSliceE(i, kind) ELSE Fail(NilSlice(Scalar(kind)))

\* cast.ToStringSliceE: a string is split into its fields, any other value
\* that ToStringE accepts becomes a slice of one string
ToStringSliceE(i) ==
    CASE i.k = "slice" /\ i.ty.elem.kind = "string" -> Ok(i)
      [] i.k = "string" -> Ok(SliceOf(Scalar("string"), Fields(i.v, <<>>)))
      [] i.k # "nil" /\ ToStringE(i).ok ->
            Ok(SliceOf(Scalar("string"), <<Str(ToStringE(i).v)>>))
      [] OTHER -> Fail(NilSlice(Scalar("string")))

-----------------------------------------------------------------------------
(* reflect's setters *)

Pow2(w) == IF w = 8 THEN 256 ELSE 65536

BitsOf(kind) ==
    CASE kind \in {"int8", "uint8"} -> 8
      [] kind \in {"int16", "uint16"} -> 16
      [] kind \in {"int32", "uint32"} -> 32
      [] OTHER -> 64

\* Value.SetInt / Value.SetUint: the number is cut to the width of the kind
\* (the kinds of 32 and 64 bits hold every number of the model).
Truncate(kind, n) ==
    IF BitsOf(kind) >= 32 THEN n
    ELSE LET m == Pow2(BitsOf(kind))
             r == n % m
         IN  IF kind \in IntKinds /\ r >= m \div 2 THEN r - m ELSE r

\* Value.Set(x): x must be assignable to the type of the place; the zero
\* Value (reflect.ValueOf(nil)) is not.
Assignable(x, t) == x.k # "nil" /\ TypeOf(x) = t

Set(t, x) == IF Assignable(x, t) THEN [res |-> "ok", v |-> x] ELSE [res |-> "panic", v |-> x]

-----------------------------------------------------------------------------
(* The value caster.  Both give [res, v]: res is "ok" (v is the field's new *)
(* value), "err" (a cast error is returned, the field is not touched) or   *)
(* "panic" (reflect panics, the field is not touched).                     *)

Done(v) == [res |-> "ok", v |-> v]
CastErr(old) == [res |-> "err", v |-> old]

\* The cast that both revisions choose for a slice field, by element kind;
\* handled is FALSE for the element kinds they pass through unconverted.
SliceCastE(itemKind, v) ==
    CASE itemKind = "bool" -> CastSliceE(v, "bool")
      [] itemKind = "int" -> CastSliceE(v, "int")
      [] itemKind \in {"int32", "int64", "float32", "float64"} -> toNumSliceE(v, itemKind)
      [] itemKind = "string" -> ToStringSliceE(v)
      [] OTHER -> Fail(v)

SliceCastKinds == {"bool", "int", "int32", "int64", "float32", "float64", "string"}

\* setRefectValue(kind, fieldValue, v) of parse.go; old is the field's value
\* and t its type.
setRefectValue(castError, t, old, v) ==
    LET kind == t.kind
        strict(r, new) == IF castError /\ ~r.ok THEN CastErr(old) ELSE Done(new)
    IN  CASE kind = "bool" -> strict(ToBoolE(v), Bool(ToBoolE(v).v))
          [] kind \in IntKinds ->
                strict(ToInt64E(v), Num(kind, Truncate(kind, ToInt64E(v).v)))
          [] kind \in UintKinds ->
                strict(ToUint64E(v), Num(kind, Truncate(kind, ToUint64E(v).v)))
          [] kind \in FloatKinds -> strict(ToFloat64E(v), Num(kind, ToFloat64E(v).v))
          [] kind = "string" -> strict(ToStringE(v), Str(ToStringE(v).v))
          [] kind = "slice" /\ t.elem.kind \in SliceCastKinds ->
                LET r == SliceCastE(t.elem.kind, v)
                IN  IF castError /\ ~r.ok THEN CastErr(old) ELSE Set(t, r.v)
          [] OTHER -> Set(t, v)

\* Value.CanConvert / Value.Convert between the types of the model: the
\* numbers convert to one another (cut to the width), equal types trivially.
CanConvert(x, t) ==
    \/ TypeOf(x) = t
    \/ /\ x.k \in IntKinds \cup UintKinds \cup FloatKinds
       /\ t.kind \in IntKinds \cup UintKinds \cup FloatKinds

Convert(x, t) ==
    IF TypeOf(x) = t THEN x
    ELSE IF t.kind \in FloatKinds THEN Num(t.kind, x.v)
    ELSE Num(t.kind, Truncate(t.kind, x.v))

\* setFieldValue(fieldValue, value), the later revision of the caster
setFieldValue(castError, t, old, value) ==
    LET kind == t.kind
        r == CASE kind = "bool" -> [ok |-> ToBoolE(value).ok, v |-> Bool(ToBoolE(value).v)]
               [] kind \in IntKinds ->
                     [ok |-> ToInt64E(value).ok, v |-> Num("int64", ToInt64E(value).v)]
               [] kind \in UintKinds ->
                     [ok |-> ToUint64E(value).ok, v |-> Num("uint64", ToUint64E(value).v)]
               [] kind \in FloatKinds ->
                     [ok |-> ToFloat64E(value).ok, v |-> Num("float64", ToFloat64E(value).v)]
               [] kind = "string" -> [ok |-> ToStringE(value).ok, v |-> Str(ToStringE(value).v)]
               [] kind = "slice" /\ t.elem.kind \in SliceCastKinds ->
                     SliceCastE(t.elem.kind, value)
               [] OTHER -> Ok(value)
    IN  IF ~r.ok /\ castError THEN CastErr(old)
        ELSE IF r.v.k = "nil" THEN [res |-> "panic", v |-> old]
        ELSE IF TypeOf(r.v) # t /\ CanConvert(r.v, t) THEN Set(t, Convert(r.v, t))
        ELSE Set(t, r.v)

-----------------------------------------------------------------------------
(* Tags: the tokenizer (newTag) and the expression cache (mapTags) *)

ignoreSymbol == "-"

Tag(selector, funcName, funcParams) ==
    [Selector |-> selector, FuncName |-> funcName, FuncParams |-> funcParams]

\* The raw tags of the model's struct types.
RawTags == {"", "li", "a", ".none", "->F()", "->G()", "->M()", "->S()", "li->S()", "a->G(x, y)", "li->("}

\* p.newTag(tagValue): the selector before "->", the call after it (each may
\* be missing); an unterminated call is an error.
newTag(raw) ==
    CASE raw = "" -> [ok |-> TRUE, tag |-> Tag("", "", <<>>)]
      [] raw = "li" -> [ok |-> TRUE, tag |-> Tag("li", "", <<>>)]
      [] raw = "a" -> [ok |-> TRUE, tag |-> Tag("a", "", <<>>)]
      [] raw = ".none" -> [ok |-> TRUE, tag |-> Tag(".none", "", <<>>)]
      [] raw = "->F()" -> [ok |-> TRUE, tag |-> Tag("", "F", <<>>)]
      [] raw = "->G()" -> [ok |-> TRUE, tag |-> Tag("", "G", <<>>)]
      [] raw = "->M()" -> [ok |-> TRUE, tag |-> Tag("", "M", <<>>)]
      [] raw = "->S()" -> [ok |-> TRUE, tag |-> Tag("", "S", <<>>)]
      [] raw = "li->S()" -> [ok |-> TRUE, tag |-> Tag("li", "S", <<>>)]
      [] raw = "a->G(x, y)" -> [ok |-> TRUE, tag |-> Tag("a", "G", <<"x", "y">>)]
      [] OTHER -> [ok |-> FALSE, tag |-> Tag("", "", <<>>)]

\* A cache is a function from the raw tags it holds to their expressions.
CacheOf(raws) == [r \in raws |-> newTag(r).tag]

\* A lookup whose hit gives the expression without its function
LoadTagSelectorOnly(cache, raw) ==
    IF raw \in DOMAIN cache
    THEN [ok |-> TRUE, tag |-> [cache[raw] EXCEPT !.FuncName = "", !.FuncParams = <<>>]]
    ELSE [ok |-> FALSE, tag |-> Tag("", "", <<>>)]

\* p.mapTags.Load(tagValue)
LoadTag(cache, raw) ==
    IF raw \in DOMAIN cache THEN [ok |-> TRUE, tag |-> cache[raw]]
    ELSE [ok |-> FALSE, tag |-> Tag("", "", <<>>)]

\* A store that keeps the selector of the expression only
StoreTagSelectorOnly(cache, raw, tag) ==
    [r \in DOMAIN cache \cup {raw} |->
        IF r = raw THEN [tag EXCEPT !.FuncName = "", !.FuncParams = <<>>] ELSE cache[r]]

\* p.mapTags.Store(tagValue, tag)
StoreTag(cache, raw, tag) ==
    [r \in DOMAIN cache \cup {raw} |-> IF r = raw THEN tag ELSE cache[r]]

-----------------------------------------------------------------------------
(* Struct types, methods and registered functions *)

Field(name, ty, tagOk, tagValue) ==
    [name |-> name, ty |-> ty, tagOk |-> tagOk, tagValue |-> tagValue]

\* A struct type: its fields, the names of its methods with a value
\* receiver (vmeth) and with a pointer receiver (pmeth), and what each does.
StructDef(fields, vmeth, pmeth, beh) ==
    [fields |-> fields, vmeth |-> vmeth, pmeth |-> pmeth, beh |-> beh]

\* What a method or a registered CallFunc does with (node, args):
\*   const  returns (v, nil)          sel  returns (node, nil)
\*   err    returns (nil, an error)
\*   echo   returns (the arguments it got after the node, nil)
\*   fill   sets field idx of its receiver to w, then returns (v, nil)
Const(v) == [op |-> "const", v |-> v]
Fill(v, idx, w) == [op |-> "fill", v |-> v, idx |-> idx, w |-> w]
RetSel == [op |-> "sel", v |-> NilIface]
RetErr == [op |-> "err", v |-> NilIface]
Echo == [op |-> "echo", v |-> NilIface]

\* The values a call returns: [out, err]
Apply(beh, node, args) ==
    CASE beh.op \in {"const", "fill"} -> [out |-> beh.v, err |-> FALSE]
      [] beh.op = "sel" -> [out |-> Sel(node), err |-> FALSE]
      [] beh.op = "echo" ->
            [out |-> SliceOf(Scalar("string"), [j \in 1..Len(args) |-> Str(<<args[j]>>)]),
             err |-> FALSE]
      [] OTHER -> [out |-> NilIface, err |-> TRUE]

\* Errors: the kind of the innermost error and the raw tags that the
\* wrapping messages of doParseStruct carry, outermost first.
NoErr == [kind |-> "", tags |-> <<>>]
Err(kind) == [kind |-> kind, tags |-> <<>>]
Wrap(err, raw) == [err EXCEPT !.tags = <<raw>> \o @]

\* findMethod without the lookup on the pointer to the value
findMethodValueOnly(name, funcName) ==
    IF funcName \in schema[name].vmeth THEN "value" ELSE ""

\* findMethod(val, funcName): the method set in which MethodByName finds the
\* name, "" when in none.  Every struct the binder reaches is addressable
\* (it sits behind the target pointer), so the pointer's methods are tried.
findMethod(name, funcName) ==
    IF funcName \in schema[name].vmeth THEN "value"
    ELSE IF funcName \in schema[name].pmeth THEN "pointer"
    ELSE ""

\* The search through stackValues from the first entry up
findFromOutermost(stackValues, i, funcName) ==
    LET has == {j \in 1..i : findMethod(stackValues[j].name, funcName) # ""}
    IN  IF has = {} THEN 0 ELSE CHOOSE j \in has : \A k \in has : j <= k

\* The search of findAndExecFunc through stackValues, from the last entry
\* down: the index of the first entry that has the method, 0 when none has.
RECURSIVE findInStack(_, _, _)
findInStack(stackValues, i, funcName) ==
    IF i = 0 THEN 0
    ELSE IF findMethod(stackValues[i].name, funcName) # "" THEN i
    ELSE findInStack(stackValues, i - 1, funcName)

\* execMethod that does not look at the trailing error of the method
execMethodFirstValueOnly(name, selTag, node) ==
    [out |-> Apply(schema[name].beh[selTag.FuncName], node, <<>>).out, err |-> NoErr]

\* execMethod passing the arguments of the tag on to the method
execMethodWithParams(name, selTag, node) ==
    [out |-> Apply(schema[name].beh[selTag.FuncName], node, selTag.FuncParams).out,
     err |-> IF Apply(schema[name].beh[selTag.FuncName], node, selTag.FuncParams).err
             THEN Err("method return error") ELSE NoErr]

\* execMethod(callMethod, selTag, node): the method is called with the node
\* alone; a non-nil trailing error fails the call.
execMethod(name, selTag, node) ==
    LET r == Apply(schema[name].beh[selTag.FuncName], node, <<>>)
    IN  IF r.err THEN [out |-> NilIface, err |-> Err("method return error")]
        ELSE [out |-> r.out, err |-> NoErr]

\* What findAndExecFunc gives back: [via, recv, params, out, err].  via
\* tells where the function was found ("own", "stack", "registry", "" when
\* nowhere), recv the struct value whose method was called, params the
\* arguments passed after the node.
NoRecv == StructVal(Loc(0, <<>>), "")

callMethod(via, recv, selTag, node) ==
    [via |-> via, recv |-> recv, params |-> <<>>] @@ execMethod(recv.name, selTag, node)

\* A registered function called with the node alone
callRegisteredNodeOnly(selTag, node) ==
    [via |-> "registry", recv |-> NoRecv, params |-> selTag.FuncParams,
     out |-> Apply(mapFuncs[selTag.FuncName], node, <<>>).out,
     err |-> IF Apply(mapFuncs[selTag.FuncName], node, <<>>).err
             THEN Err("call registered func error") ELSE NoErr]

\* cfn(node, selTag.FuncParams...)
callRegistered(selTag, node) ==
    LET r == Apply(mapFuncs[selTag.FuncName], node, selTag.FuncParams)
    IN  [via |-> "registry", recv |-> NoRecv, params |-> selTag.FuncParams,
         out |-> IF r.err THEN NilIface ELSE r.out,
         err |-> IF r.err THEN Err("call registered func error") ELSE NoErr]

methodNotFound ==
    [via |-> "", recv |-> NoRecv, params |-> <<>>, out |-> NilIface,
     err |-> Err("method not found")]

\* findAndExecFunc asking the registry before the enclosing structs
findAndExecFuncRegistryFirst(val, stackValues, selTag, node) ==
    LET at == findInStack(stackValues, Len(stackValues), selTag.FuncName)
    IN  IF findMethod(val.name, selTag.FuncName) # ""
        THEN callMethod("own", val, selTag, node)
        ELSE IF selTag.FuncName \in DOMAIN mapFuncs THEN callRegistered(selTag, node)
        ELSE IF at # 0 THEN callMethod("stack", stackValues[at], selTag, node)
        ELSE methodNotFound

\* findAndExecFunc falling back to the node's text when nothing is found
findAndExecFuncTextFallback(val, stackValues, selTag, node) ==
    LET at == findInStack(stackValues, Len(stackValues), selTag.FuncName)
    IN  IF findMethod(val.name, selTag.FuncName) # ""
        THEN callMethod("own", val, selTag, node)
        ELSE IF at # 0 THEN callMethod("stack", stackValues[at], selTag, node)
        ELSE IF selTag.FuncName \in DOMAIN mapFuncs THEN callRegistered(selTag, node)
        ELSE [methodNotFound EXCEPT !.out = Str(TrimSpace(Text(node))), !.err = NoErr]

\* findAndExecFunc(val, stackValues, selTag, node), for a tag that names a
\* function: the struct's own method, else the method of the last entry of
\* stackValues that has one, else the registered function, else an error.
findAndExecFunc(val, stackValues, selTag, node) ==
    LET size == Len(stackValues)
        at == findInStack(stackValues, size, selTag.FuncName)
    IN  IF findMethod(val.name, selTag.FuncName) # ""
        THEN callMethod("own", val, selTag, node)
        ELSE IF size > 0 /\ at # 0 THEN callMethod("stack", stackValues[at], selTag, node)
        ELSE IF selTag.FuncName \in DOMAIN mapFuncs THEN callRegistered(selTag, node)
        ELSE methodNotFound

-----------------------------------------------------------------------------
(* The state of one bind and its call stack *)

\* A frame of doParsePointer ("ptr"), doParseStruct ("struct") or
\* doParseSlice ("slice"): val, stackValues, selection, the loop index i,
\* the place in the function (pc) and its locals.
Frame(fn, pc, loc, stackValues, selection) ==
    [fn |-> fn, pc |-> pc, loc |-> loc, stack |-> stackValues, sel |-> selection,
     i |-> 1, raw |-> "", tag |-> Tag("", "", <<>>), buf |-> NilIface,
     newSlice |-> FALSE, err |-> NoErr]

IdleBind(v, engine) ==
    [status |-> "idle", v |-> v, v0 |-> v, engine |-> engine, frames |-> <<>>,
     err |-> NoErr, calls |-> <<>>, parsed |-> <<>>, found |-> <<>>,
     assigned |-> <<>>]

Top(s) == s.frames[Len(s.frames)]
SetTop(s, f) == [s EXCEPT !.frames[Len(s.frames)] = f]
Push(s, f) == [s EXCEPT !.frames = Append(@, f)]
Pop(s) == [s EXCEPT !.frames = SubSeq(@, 1, Len(@) - 1)]
Panic(s) == [s EXCEPT !.status = "panic"]

\* Where a place lies in the target once the slices under way are stored.
RECURSIVE AbsPath(_, _)
AbsPath(s, loc) ==
    IF loc.root = 0 THEN loc.path
    ELSE AbsPath(s, s.frames[loc.root].loc) \o loc.path

Read(s, loc) ==
    GetAt(IF loc.root = 0 THEN s.v ELSE s.frames[loc.root].buf, loc.path)

Write(s, loc, x) ==
    IF loc.root = 0 THEN [s EXCEPT !.v = SetAt(@, loc.path, x)]
    ELSE [s EXCEPT !.frames[loc.root].buf = SetAt(@, loc.path, x)]

\* The binder giving a field its value (SetString, or the Set calls of
\* setRefectValue): the write, kept in the history of the bind.
Assign(s, loc, x) ==
    [Write(s, loc, x) EXCEPT !.assigned = Append(@, [path |-> AbsPath(s, loc), val |-> x])]

\* The end of doParseStruct's loop body: the next field, or return nil.
NextField(s) ==
    LET f == Top(s)
    IN  IF f.i < NumField(Read(s, f.loc).name)
        THEN SetTop(s, [f EXCEPT !.i = @ + 1, !.pc = "load"])
        ELSE SetTop(s, [f EXCEPT !.pc = "done", !.err = NoErr])

\* The end of doParseSlice: after the last node the new slice is stored.
NextItem(s) ==
    LET f == Top(s)
    IN  IF f.i < Len(f.sel)
        THEN SetTop(s, [f EXCEPT !.i = @ + 1, !.pc = "item"])
        ELSE LET t == IF f.newSlice THEN Write(s, f.loc, f.buf) ELSE s
             IN  SetTop(t, [Top(t) EXCEPT !.pc = "done", !.err = NoErr])

\* The caller's frame going on with the next slice element after an error
ResumeNextItem(s, err) ==
    LET f == Top(s)
    IN  CASE f.fn = "ptr" -> SetTop(s, [f EXCEPT !.pc = "done", !.err = err])
          [] f.fn = "struct" ->
                IF err # NoErr
                THEN SetTop(s, [f EXCEPT !.pc = "done", !.err = Wrap(err, f.raw)])
                ELSE NextField(s)
          [] OTHER -> NextItem(s)

\* The caller's frame receiving an error and undoing what the bind has
\* written to the target
ResumeRollback(s, err) ==
    LET f == Top(s)
    IN  CASE f.fn = "ptr" ->
                SetTop(IF err # NoErr THEN [s EXCEPT !.v = s.v0] ELSE s,
                       [f EXCEPT !.pc = "done", !.err = err])
          [] f.fn = "struct" ->
                IF err # NoErr
                THEN SetTop([s EXCEPT !.v = s.v0],
                            [f EXCEPT !.pc = "done", !.err = Wrap(err, f.raw)])
                ELSE NextField(s)
          [] OTHER ->
                IF err # NoErr
                THEN SetTop([s EXCEPT !.v = s.v0], [f EXCEPT !.pc = "done", !.err = err])
                ELSE NextItem(s)

\* The caller's frame receives the error (or nil) its doParse call returned.
Resume(s, err) ==
    LET f == Top(s)
    IN  CASE f.fn = "ptr" -> SetTop(s, [f EXCEPT !.pc = "done", !.err = err])
          [] f.fn = "struct" ->
                IF err # NoErr
                THEN SetTop(s, [f EXCEPT !.pc = "done", !.err = Wrap(err, f.raw)])
                ELSE NextField(s)
          [] OTHER ->
                IF err # NoErr
                THEN SetTop(s, [f EXCEPT !.pc = "done", !.err = err])
                ELSE NextItem(s)

\* doParse(val, stackValues, selection), called from the top frame (or from
\* ParseSelection): a pointer, a struct or a slice gets a frame of its own,
\* any other kind is set to the trimmed text, which reflect allows for a
\* string only.  A call that the stack has no room for ends the program.
doParse(s, loc, stackValues, selection) ==
    LET val == Read(s, loc)
    IN  CASE Len(s.frames) >= MaxDepth -> [s EXCEPT !.status = "overflow"]
          [] val.k = "ptr" -> Push(s, Frame("ptr", "enter", loc, stackValues, selection))
          [] val.k = "struct" ->
                Push(s, Frame("struct", IF NumField(val.name) = 0 THEN "done" ELSE "load",
                              loc, stackValues, selection))
          [] val.k = "slice" -> Push(s, Frame("slice", "enter", loc, stackValues, selection))
          [] val.k = "string" ->
                Resume(Assign(s, loc, Str(TrimSpace(Text(selection)))), NoErr)
          [] OTHER -> Panic(s)

-----------------------------------------------------------------------------
(* The steps of a bind, as functions of its state *)

\* ParseSelection(v, selection): the checks of the target, then doParse.
\* For the nil interface reflect.ValueOf gives the zero Value, whose Kind is
\* not Ptr and whose Type() (the argument of the error message) panics.
ParseSelectionOf(s) ==
    LET val == s.v
        fail(kind) == [s EXCEPT !.status = "error", !.err = Err(kind)]
    IN  IF val.k = "nil" THEN Panic(s)
        ELSE IF val.k # "ptr" THEN fail("is non-pointer")
        ELSE IF val.nil THEN fail("is nil")
        ELSE IF val.e.k # "struct" THEN fail("is not a struct")
        ELSE doParse([s EXCEPT !.status = "running"], Loc(0, <<>>), <<>>, <<1>>)

\* doParsePointer that leaves a nil pointer as it is and returns
doParsePointerSkipNil(s) ==
    IF Read(s, Top(s).loc).nil THEN SetTop(s, [Top(s) EXCEPT !.pc = "done", !.err = NoErr])
    ELSE doParse(SetTop(s, [Top(s) EXCEPT !.pc = "wait"]), Sub(Top(s).loc, 0),
                 Top(s).stack, Top(s).sel)

\* doParsePointer: a nil pointer is set to a new zero value, then the
\* pointee is parsed with the same stackValues and selection.
doParsePointerOf(s) ==
    LET f == Top(s)
        val == Read(s, f.loc)
        t == IF val.nil THEN Write(s, f.loc, PtrTo(val.ty.elem, Zero(val.ty.elem))) ELSE s
    IN  doParse(SetTop(t, [f EXCEPT !.pc = "wait"]), Sub(f.loc, 0), f.stack, f.sel)

\* doParseStruct without the two skips: every field's tag is looked up
loadTagOfNoSkip(s, cache) ==
    LET f == Top(s)
        fd == schema[Read(s, f.loc).name].fields[f.i]
        hit == LoadTag(cache, fd.tagValue)
        new == newTag(fd.tagValue)
    IN  IF hit.ok
        THEN SetTop(s, [f EXCEPT !.raw = fd.tagValue, !.tag = hit.tag, !.pc = "exec"])
        ELSE LET t == [s EXCEPT !.parsed = Append(@, fd.tagValue)]
             IN  IF ~new.ok
                 THEN SetTop(t, [f EXCEPT !.raw = fd.tagValue, !.pc = "done",
                                          !.err = Err("newTag")])
                 ELSE SetTop(t, [f EXCEPT !.raw = fd.tagValue, !.tag = new.tag,
                                          !.pc = "store"])

\* doParseStruct, from the top of the loop body to the cache lookup: a field
\* without tag or with the ignore symbol is skipped; on a miss the tag is
\* parsed, and an error of newTag is returned as it is.
loadTagOf(s, cache) ==
    LET f == Top(s)
        fd == schema[Read(s, f.loc).name].fields[f.i]
        hit == LoadTag(cache, fd.tagValue)
        new == newTag(fd.tagValue)
    IN  IF ~fd.tagOk \/ fd.tagValue = ignoreSymbol THEN NextField(s)
        ELSE IF hit.ok
        THEN SetTop(s, [f EXCEPT !.raw = fd.tagValue, !.tag = hit.tag, !.pc = "exec"])
        ELSE LET t == [s EXCEPT !.parsed = Append(@, fd.tagValue)]
             IN  IF ~new.ok
                 THEN SetTop(t, [f EXCEPT !.raw = fd.tagValue, !.pc = "done",
                                          !.err = Err("newTag")])
                 ELSE SetTop(t, [f EXCEPT !.raw = fd.tagValue, !.tag = new.tag,
                                          !.pc = "store"])

\* The caster of the revision that Config names.
castValue(t, old, v) ==
    IF Config.rev = "setRefectValue" THEN setRefectValue(Config.CastError, t, old, v)
    ELSE setFieldValue(Config.CastError, t, old, v)

\* doParseStruct leaving the struct of the field, not val, in stackValues
parseFieldKeepsField(s, val, fieldLoc, node) ==
    doParse(SetTop(s, [Top(s) EXCEPT
                         !.stack = Append(@, IF Read(s, fieldLoc).k = "struct"
                                             THEN StructVal(fieldLoc, Read(s, fieldLoc).name)
                                             ELSE val),
                         !.pc = "wait"]),
            fieldLoc, Append(Top(s).stack, val), node)

\* doParseStruct, the end of the loop body: val joins stackValues and the
\* field is parsed with the node.
parseField(s, val, fieldLoc, node) ==
    LET g == [Top(s) EXCEPT !.stack = Append(@, val), !.pc = "wait"]
    IN  doParse(SetTop(s, g), fieldLoc, g.stack, node)

\* doParseStruct once the caster has returned c: a cast error is returned
\* wrapped, otherwise the loop goes on with the next field.
afterCast(s, fieldLoc, c) ==
    IF c.res = "panic" THEN Panic(s)
    ELSE IF c.res = "err"
    THEN SetTop(s, [Top(s) EXCEPT !.pc = "done", !.err = Wrap(Err("cast"), Top(s).raw)])
    ELSE NextField(Assign(s, fieldLoc, c.v))

\* doParseStruct once findAndExecFunc has returned r: an error is returned
\* wrapped, a selection becomes the node to parse the field with, any other
\* value is cast into the field.
afterCall(s, val, fieldLoc, fieldType, r) ==
    IF r.err # NoErr
    THEN SetTop(s, [Top(s) EXCEPT !.pc = "done", !.err = Wrap(r.err, Top(s).raw)])
    ELSE IF r.out.k = "sel" THEN parseField(s, val, fieldLoc, r.out.v)
    ELSE afterCast(s, fieldLoc, castValue(fieldType, Read(s, fieldLoc), r.out))

\* The call of findAndExecFunc as calls keeps it: the field, the struct
\* being populated, how the function was found and on which receiver, the
\* field's value before (in s) and after (in t) the step, whether doParse
\* has been entered for the field (rec) and with which node (sel), and
\* whether the step has panicked.
callOf(s, t, val, fieldLoc, node, r) ==
    [field |-> AbsPath(s, fieldLoc), val |-> val, abs |-> AbsPath(s, val.loc),
     name |-> Top(s).tag.FuncName, via |-> r.via, recv |-> r.recv,
     recvAbs |-> AbsPath(s, r.recv.loc), node |-> node, params |-> r.params,
     out |-> r.out, old |-> Read(s, fieldLoc), new |-> Read(t, fieldLoc),
     rec |-> Len(t.frames) > Len(s.frames),
     sel |-> IF Len(t.frames) > Len(s.frames) THEN Top(t).sel ELSE <<>>,
     panic |-> t.status = "panic"]

recordCall(t, call) == [t EXCEPT !.calls = Append(@, call)]

\* A method that is called on a copy of its receiver
sideEffectOnCopy(s, r, funcName) == s

\* What the called method has done to its receiver when it returns.  A
\* method with a pointer receiver is called on val.Addr() and writes into
\* the target; one with a value receiver writes into its own copy.
sideEffect(s, r, funcName) ==
    IF /\ r.via \in {"own", "stack"}
       /\ findMethod(r.recv.name, funcName) = "pointer"
       /\ schema[r.recv.name].beh[funcName].op = "fill"
    THEN Write(s, Sub(r.recv.loc, schema[r.recv.name].beh[funcName].idx),
               schema[r.recv.name].beh[funcName].w)
    ELSE s

\* The step from the state s to the state t, with its call recorded.
calling(s, t, val, fieldLoc, node, r) ==
    recordCall(t, callOf(s, t, val, fieldLoc, node, r))

\* doParseStruct for a tag that names a function, from the call on.
execFunc(s, val, fieldLoc, fieldType, node, r) ==
    calling(s, afterCall(sideEffect(s, r, Top(s).tag.FuncName), val, fieldLoc, fieldType, r),
            val, fieldLoc, node, r)

\* The node of the field: the selection itself, or what the selector finds.
nodeOf(sel, tag) == IF tag.Selector # "" THEN Find(sel, tag.Selector) ELSE sel

\* doParseStruct from the selector to the end of the loop body; found keeps
\* the selectors resolved.
execFieldAt(s, f, val, fieldLoc, node) ==
    LET s1 == IF f.tag.Selector # ""
              THEN [s EXCEPT !.found = Append(@, f.tag.Selector)] ELSE s
    IN  IF f.tag.FuncName = "" THEN parseField(s1, val, fieldLoc, node)
        ELSE execFunc(s1, val, fieldLoc, schema[val.name].fields[f.i].ty, node,
                      findAndExecFunc(val, f.stack, f.tag, node))

execFieldOf(s) ==
    execFieldAt(s, Top(s), StructVal(Top(s).loc, Read(s, Top(s).loc).name),
                Sub(Top(s).loc, Top(s).i), nodeOf(Top(s).sel, Top(s).tag))

\* doParseSlice up to the loop: a nil slice is replaced by a new one of
\* selection.Size() zero elements, a non-nil one is parsed into as it is.
enterSliceOf(s) ==
    LET f == Top(s)
        val == Read(s, f.loc)
        made == SliceOf(val.ty.elem, [j \in 1..Len(f.sel) |-> Zero(val.ty.elem)])
        g == IF val.nil THEN [f EXCEPT !.buf = made, !.newSlice = TRUE, !.i = 0]
             ELSE [f EXCEPT !.i = 0]
    IN  NextItem(SetTop(s, g))

\* One call of EachWithBreak's callback: slice.Index(i) panics beyond the
\* length of the slice.
sliceItemOf(s) ==
    LET f == Top(s)
        slice == IF f.newSlice THEN f.buf ELSE Read(s, f.loc)
        itemLoc == IF f.newSlice THEN Loc(Len(s.frames), <<f.i>>) ELSE Sub(f.loc, f.i)
    IN  IF f.i > Len(slice.e) THEN Panic(s)
        ELSE doParse(SetTop(s, [f EXCEPT !.pc = "wait"]), itemLoc, f.stack, <<f.sel[f.i]>>)

\* A frame returns: its caller goes on, or the bind ends.
returnOf(s) ==
    LET f == Top(s)
        t == Pop(s)
    IN  IF t.frames = <<>>
        THEN [t EXCEPT !.status = IF f.err # NoErr THEN "error" ELSE "ok", !.err = f.err]
        ELSE Resume(t, f.err)

-----------------------------------------------------------------------------
(* Actions *)

Finished == {"ok", "error", "panic"}
Running(b) == binds[b].status = "running" /\ binds[b].frames # <<>>
At(b, fn, pc) == Running(b) /\ Top(binds[b]).fn = fn /\ Top(binds[b]).pc = pc
Step(b, t) == binds' = [binds EXCEPT ![b] = t]

\* A caller binds its target.  The callers of one run bind one after
\* another, but for the concurrent run: there the first caller binds alone
\* and the others, once it has finished, at the same time.
ParseSelection(b) ==
    /\ b <= Config.nbinds
    /\ binds[b].status = "idle"
    /\ \A c \in Binds :
          c < b => binds[c].status \in Finished \/ (Config.family = "concurrent" /\ c > 1)
    /\ Step(b, ParseSelectionOf(binds[b]))
    /\ UNCHANGED <<mapTags, tagPtrs, mapFuncs, registered, schema, doc, Config>>

DoParsePointer(b) ==
    /\ At(b, "ptr", "enter")
    /\ Step(b, doParsePointerOf(binds[b]))
    /\ UNCHANGED <<mapTags, tagPtrs, mapFuncs, registered, schema, doc, Config>>

StructLoadTag(b) ==
    /\ At(b, "struct", "load")
    /\ Step(b, loadTagOf(binds[b], mapTags[binds[b].engine]))
    /\ UNCHANGED <<mapTags, tagPtrs, mapFuncs, registered, schema, doc, Config>>

StructStoreTag(b) ==
    /\ At(b, "struct", "store")
    /\ mapTags' = [mapTags EXCEPT ![binds[b].engine] =
                      StoreTag(@, Top(binds[b]).raw, Top(binds[b]).tag)]
    /\ tagPtrs' = [tagPtrs EXCEPT ![binds[b].engine] =
                      [r \in DOMAIN @ \cup {Top(binds[b]).raw} |->
                          IF r = Top(binds[b]).raw THEN b ELSE @[r]]]
    /\ Step(b, SetTop(binds[b], [Top(binds[b]) EXCEPT !.pc = "exec"]))
    /\ UNCHANGED <<mapFuncs, registered, schema, doc, Config>>

StructExecField(b) ==
    /\ At(b, "struct", "exec")
    /\ Step(b, execFieldOf(binds[b]))
    /\ UNCHANGED <<mapTags, tagPtrs, mapFuncs, registered, schema, doc, Config>>

DoParseSlice(b) ==
    /\ At(b, "slice", "enter")
    /\ Step(b, enterSliceOf(binds[b]))
    /\ UNCHANGED <<mapTags, tagPtrs, mapFuncs, registered, schema, doc, Config>>

SliceItem(b) ==
    /\ At(b, "slice", "item")
    /\ Step(b, sliceItemOf(binds[b]))
    /\ UNCHANGED <<mapTags, tagPtrs, mapFuncs, registered, schema, doc, Config>>

Return(b) ==
    /\ Running(b)
    /\ Top(binds[b]).pc = "done"
    /\ Step(b, returnOf(binds[b]))
    /\ UNCHANGED <<mapTags, tagPtrs, mapFuncs, registered, schema, doc, Config>>

\* A store that keeps the function a name already has
StoreFuncKeepFirst(funcs, name, fn) ==
    [f \in DOMAIN funcs \cup {name} |-> IF f \in DOMAIN funcs THEN funcs[f] ELSE fn]

\* p.mapFuncs.Store(name, fn)
StoreFunc(funcs, name, fn) ==
    [f \in DOMAIN funcs \cup {name} |-> IF f = name THEN fn ELSE funcs[f]]

\* The functions that the registering goroutines register, and their names:
\* F is in the registry from the start and the fields call it, N is new.
RegNames == {"F", "N"}
RegFns == {[op |-> "const", v |-> Str(<<c>>)] : c \in {"1", "2"}}

\* A goroutine registers a function while binds may be under way.
RegisterFunc(name, fn) ==
    /\ Config.family = "register"
    /\ Len(registered) < MaxRegs
    /\ mapFuncs' = StoreFunc(mapFuncs, name, fn)
    /\ registered' = Append(registered, [name |-> name, fn |-> fn])
    /\ UNCHANGED <<binds, mapTags, tagPtrs, schema, doc, Config>>

-----------------------------------------------------------------------------
(* The runs: struct types, documents, targets and engines *)

STRING_T == Scalar("string")
NoBeh == [n \in {} |-> RetErr]
Plain(fields) == StructDef(fields, {}, {}, NoBeh)

\* k struct fields that the binder recurses into before the fields of interest
Pre(k) == [j \in 1..k |-> Field("P", StructT("Empty"), TRUE, "a")]

\* A struct type whose method F is missing (""), has a value receiver or a
\* pointer receiver; the method returns its owner's letter.
WithF(fields, recv, letter) ==
    StructDef(fields,
              IF recv = "value" THEN {"F"} ELSE {},
              IF recv = "pointer" THEN {"F"} ELSE {},
              IF recv = "" THEN NoBeh ELSE [n \in {"F"} |-> Const(Str(<<letter>>))])

\* Function resolution: Root holds a slice of Mid, Mid a pointer to Leaf,
\* and each of the three has a field bound by F.
ResolveSchema(k1, k2, mr, mm, ml) ==
    [n \in {"Root", "Mid", "Leaf", "Empty"} |->
        CASE n = "Root" ->
                WithF(Pre(k1) \o <<Field("Ms", SliceT(StructT("Mid")), TRUE, "li"),
                                   Field("X", STRING_T, TRUE, "->F()")>>, mr, "r")
          [] n = "Mid" ->
                WithF(Pre(k2) \o <<Field("Lf", PtrT(StructT("Leaf")), TRUE, "a"),
                                   Field("V", STRING_T, TRUE, "->F()")>>, mm, "m")
          [] n = "Leaf" -> WithF(<<Field("W", STRING_T, TRUE, "->F()")>>, ml, "l")
          [] OTHER -> Plain(<<>>)]

\* The caster: one field of type t bound by the registered function G.
CastSchema(t) ==
    [n \in {"Root", "Empty"} |->
        IF n = "Root" THEN Plain(<<Field("V", t, TRUE, "->G()")>>) ELSE Plain(<<>>)]

\* Slices: one slice field with elements of type e under the tag raw.
SliceSchema(e, raw) ==
    [n \in {"Root", "Item"} |->
        IF n = "Root" THEN Plain(<<Field("L", SliceT(e), TRUE, raw)>>)
        ELSE Plain(<<Field("T", STRING_T, TRUE, "a")>>)]

\* The cache: text, a slice of structs, a cast and a last field whose tag zt
\* names F or is malformed.
CacheSchema(zt) ==
    [n \in {"Root", "Item"} |->
        IF n = "Root"
        THEN Plain(<<Field("A", STRING_T, TRUE, "a"),
                     Field("L", SliceT(StructT("Item")), TRUE, "li"),
                     Field("V", Scalar("int"), TRUE, "a->G(x, y)"),
                     Field("Z", STRING_T, TRUE, zt)>>)
        ELSE Plain(<<Field("T", STRING_T, TRUE, "a")>>)]

Methods == {"", "value", "pointer"}
Revisions == {"setRefectValue", "setFieldValue"}

CastTypes ==
    {Scalar(k) : k \in {"bool", "int", "int8", "int64", "uint", "uint8", "float64", "string"}}
    \cup {SliceT(Scalar(k)) :
            k \in {"bool", "int", "int8", "int32", "int64", "uint", "float64", "string"}}
    \cup {StructT("Empty"), PtrT(STRING_T)}

Strs(ss) == SliceOf(STRING_T, [j \in 1..Len(ss) |-> Str(ss[j])])

\* What the function of a cast run returns.
TermVals ==
    {NilIface, Bool(TRUE), Num("int", 7), Num("int", 300), Num("int", -1),
     Str(<<"4", "2">>), Str(<<"3", "0", "0">>), Str(<<"-", "1">>), Str(<<"a", "b">>),
     Str(<<"t">>), Str(<<"1", Space, "2">>), Str(<<>>),
     Strs(<<<<"1">>, <<"2">>>>), Strs(<<<<"1">>, <<"x">>>>), Strs(<<>>)}

\* A value of type t that differs from the zero value where the type has one.
Sample(t) ==
    CASE t.kind = "bool" -> Bool(TRUE)
      [] t.kind = "string" -> Str(<<"o">>)
      [] t.kind = "slice" -> SliceOf(t.elem, <<Zero(t.elem)>>)
      [] t.kind \in {"struct", "ptr"} -> Zero(t)
      [] OTHER -> Num(t.kind, 5)

\* The slices a caller may have left in the field: nil, or n old elements.
PriorSlices(e) ==
    {NilSlice(e)} \cup {SliceOf(e, [j \in 1..n |-> Zero(e)]) : n \in 0..MaxPrior}

RootPtr(fs) == PtrTo(StructT("Root"), StructV("Root", fs))
FreshRoot == PtrTo(StructT("Root"), Zero(StructT("Root")))

\* Methods and skipped fields: the struct Holder is the root itself or sits
\* in the root behind a struct field, a pointer field or a slice field.  Its
\* field V is bound by M, its field O has no tag (or the ignore symbol) and
\* B is bound to text, or has a tag that does not parse.  M, when Holder has
\* it, fills O or returns an error.
HolderDef(recv, op, ignored, last) ==
    StructDef(<<Field("V", STRING_T, TRUE, "->M()"),
                IF ignored THEN Field("O", STRING_T, TRUE, ignoreSymbol)
                ELSE Field("O", STRING_T, FALSE, ""),
                Field("B", STRING_T, TRUE, last)>>,
              IF recv = "value" THEN {"M"} ELSE {},
              IF recv = "pointer" THEN {"M"} ELSE {},
              IF recv = "" THEN NoBeh
              ELSE [n \in {"M"} |-> IF op = "fill" THEN Fill(Str(<<"v">>), 2, Str(<<"w">>))
                                    ELSE RetErr])

MethodSchema(shape, recv, op, ignored, last) ==
    [n \in {"Root", "Holder"} |->
        IF n = "Holder" \/ shape = "root" THEN HolderDef(recv, op, ignored, last)
        ELSE Plain(<<CASE shape = "struct" -> Field("H", StructT("Holder"), TRUE, "a")
                       [] shape = "ptr" -> Field("H", PtrT(StructT("Holder")), TRUE, "a")
                       [] OTHER -> Field("H", SliceT(StructT("Holder")), TRUE, "li")>>)]

Shapes == {"root", "struct", "ptr", "slice"}

\* A Holder the caller has filled before the bind.
OldHolder == StructV("Holder", <<Str(<<"o">>), Str(<<"o">>), Str(<<"o">>)>>)

MethodTarget(shape) ==
    CASE shape = "root" -> RootPtr(<<Str(<<"o">>), Str(<<"o">>), Str(<<"o">>)>>)
      [] shape = "struct" -> RootPtr(<<OldHolder>>)
      [] shape = "ptr" -> RootPtr(<<PtrTo(StructT("Holder"), OldHolder)>>)
      [] OTHER -> FreshRoot

OneEngine(v) == [b \in Binds |-> IdleBind(v, 1)]
EmptyCaches == [e \in Engines |-> CacheOf({})]
Cfg(family, castError, rev, nbinds) ==
    [family |-> family, CastError |-> castError, rev |-> rev, nbinds |-> nbinds]

InitTarget ==
    \E v \in {"nil", "string", "struct", "nilptr", "ptrstring", "ptrptr"}, n \in 0..MaxNodes :
        /\ schema = SliceSchema(STRING_T, "li")
        /\ doc = DocOf(n)
        /\ mapFuncs = [f \in {"S"} |-> RetSel]
        /\ mapTags = EmptyCaches
        /\ Config = Cfg("target", FALSE, "setRefectValue", 1)
        /\ binds = OneEngine(CASE v = "nil" -> NilIface
                               [] v = "string" -> Str(<<"o">>)
                               [] v = "struct" -> Zero(StructT("Root"))
                               [] v = "nilptr" -> NilPtr(StructT("Root"))
                               [] v = "ptrstring" -> PtrTo(STRING_T, Str(<<"o">>))
                               [] OTHER -> PtrTo(PtrT(StructT("Root")), FreshRoot))

InitResolve ==
    \E k1 \in 0..MaxPre, k2 \in 0..MaxPre, mr \in Methods, mm \in Methods, ml \in Methods,
       reg \in BOOLEAN :
        /\ schema = ResolveSchema(k1, k2, mr, mm, ml)
        /\ doc = DocOf(MaxNodes)
        /\ mapFuncs = [f \in (IF reg THEN {"F"} ELSE {}) |-> Const(Str(<<"g">>))]
        /\ mapTags = EmptyCaches
        /\ Config = Cfg("resolve", FALSE, "setRefectValue", 1)
        /\ binds = OneEngine(FreshRoot)

InitCast ==
    \E t \in CastTypes, out \in TermVals, castError \in BOOLEAN, rev \in Revisions :
        /\ schema = CastSchema(t)
        /\ doc = DocOf(1)
        /\ mapFuncs = [f \in {"G"} |-> Const(out)]
        /\ mapTags = EmptyCaches
        /\ Config = Cfg("cast", castError, rev, 1)
        /\ binds = OneEngine(RootPtr(<<Sample(t)>>))

InitSlice ==
    \E e \in {STRING_T, StructT("Item"), PtrT(StructT("Item"))},
       raw \in {"li", "li->S()", ".none"}, n \in 0..MaxNodes :
        /\ schema = SliceSchema(e, raw)
        /\ doc = DocOf(n)
        /\ mapFuncs = [f \in {"S"} |-> RetSel]
        /\ mapTags = EmptyCaches
        /\ Config = Cfg("slice", FALSE, "setRefectValue", 1)
        /\ \E old \in PriorSlices(e) : binds = OneEngine(RootPtr(<<old>>))

\* Two engines with the same registry bind the same document into fresh
\* targets: engine 1 starts with an empty cache, engine 2 with warm.
InitCache ==
    \E zt \in {"->F()", "li->("}, out \in {Str(<<"4", "2">>), Str(<<"a", "b">>)},
       castError \in BOOLEAN, reg \in BOOLEAN,
       warm \in SUBSET {"a", "li", "a->G(x, y)", "->F()"} :
        /\ schema = CacheSchema(zt)
        /\ doc = DocOf(MaxNodes)
        /\ mapFuncs = [f \in {"G"} \cup (IF reg THEN {"F"} ELSE {}) |->
                          IF f = "G" THEN Const(out) ELSE Const(Str(<<"g">>))]
        /\ mapTags = [e \in Engines |-> IF e = 1 THEN CacheOf({}) ELSE CacheOf(warm)]
        /\ Config = Cfg("cache", castError, "setRefectValue", 2)
        /\ binds = [b \in Binds |-> IdleBind(FreshRoot, IF b = 1 THEN 1 ELSE 2)]

\* One engine shared by two callers that bind at the same time, and a
\* second engine with the same registry on which a caller binds alone.
InitConcurrent ==
    \E zt \in {"->F()", "li->("}, reg \in BOOLEAN :
        /\ schema = CacheSchema(zt)
        /\ doc = DocOf(MaxNodes)
        /\ mapFuncs = [f \in {"G"} \cup (IF reg THEN {"F"} ELSE {}) |->
                          IF f = "G" THEN Const(Str(<<"4", "2">>)) ELSE Const(Str(<<"g">>))]
        /\ mapTags = EmptyCaches
        /\ Config = Cfg("concurrent", FALSE, "setRefectValue", 3)
        /\ binds = [b \in Binds |-> IdleBind(FreshRoot, IF b = 1 THEN 2 ELSE 1)]

\* The registry as New() has seeded it, for the run with registrations
builtinFuncs == [f \in {"F"} |-> Const(Str(<<"0">>))]

RegisterSchema ==
    [n \in {"Root"} |-> Plain(<<Field("V", STRING_T, TRUE, "->F()"),
                                 Field("W", STRING_T, TRUE, "->F()")>>)]

\* A bind whose fields call the registered F while goroutines register.
InitRegister ==
    /\ schema = RegisterSchema
    /\ doc = DocOf(1)
    /\ mapFuncs = builtinFuncs
    /\ mapTags = EmptyCaches
    /\ Config = Cfg("register", FALSE, "setRefectValue", 1)
    /\ binds = OneEngine(FreshRoot)

\* A struct type with a field of its own type: behind a pointer, or as the
\* element of a slice.
SelfSchema(kind, sel) ==
    [n \in {"Root"} |->
        Plain(<<Field("A", STRING_T, TRUE, "a"),
                IF kind = "ptr" THEN Field("Next", PtrT(StructT("Root")), TRUE, sel)
                ELSE Field("Kids", SliceT(StructT("Root")), TRUE, sel)>>)]

InitRecursive ==
    \E kind \in {"ptr", "slice"}, sel \in {"a", "li", ".none"}, n \in 0..MaxNodes :
        /\ schema = SelfSchema(kind, sel)
        /\ doc = DocOf(n)
        /\ mapFuncs = [f \in {"S"} |-> RetSel]
        /\ mapTags = EmptyCaches
        /\ Config = Cfg("recursive", FALSE, "setRefectValue", 1)
        /\ binds = OneEngine(FreshRoot)

\* Shapes: one field of type t under the tag raw, bound by text (no
\* function), by a function returning a selection or by one returning a
\* terminal value: a string, or a value of the field's own type.
ShapeSchema(t, raw) ==
    [n \in {"Root", "Item"} |->
        IF n = "Root" THEN Plain(<<Field("V", t, TRUE, raw)>>)
        ELSE Plain(<<Field("T", STRING_T, TRUE, "a")>>)]

ShapeTypes ==
    {STRING_T, Scalar("int"), Scalar("bool"), Scalar("float64"), StructT("Item"),
     PtrT(StructT("Item")), SliceT(StructT("Item")), SliceT(STRING_T)}

AnItem == StructV("Item", <<Str(<<"z">>)>>)

SameTyped(t) ==
    CASE t.kind = "struct" -> AnItem
      [] t.kind = "ptr" -> PtrTo(t.elem, AnItem)
      [] t.kind = "slice" /\ t.elem.kind = "struct" -> SliceOf(t.elem, <<AnItem>>)
      [] t.kind = "slice" -> Strs(<<<<"z">>>>)
      [] t.kind = "string" -> Str(<<"z">>)
      [] t.kind = "bool" -> Bool(TRUE)
      [] OTHER -> Num(t.kind, 7)

InitShape ==
    \E t \in ShapeTypes, raw \in {"", "a", ".none", "li->S()"} :
        \E beh \in IF raw = "li->S()" THEN {RetSel, Const(Str(<<"7">>)), Const(SameTyped(t))}
                    ELSE {RetSel} :
            /\ schema = ShapeSchema(t, raw)
            /\ doc = DocOf(MaxNodes)
            /\ mapFuncs = [f \in {"S"} |-> beh]
            /\ mapTags = EmptyCaches
            /\ Config = Cfg("shape", FALSE, "setRefectValue", 1)
            /\ binds = OneEngine(RootPtr(<<IF t.kind \in {"struct", "ptr", "slice"}
                                           THEN Zero(t) ELSE Sample(t)>>))

\* Arguments: the field V of the struct Inner, which sits in the root, is
\* bound by G(x, y); G is a method of Inner (own), a method of the root
\* (stack) or only a registered function, and gives back its arguments or
\* its node.
ArgsSchema(where, recv, beh) ==
    [n \in {"Root", "Inner"} |->
        StructDef(IF n = "Root" THEN <<Field("In", StructT("Inner"), TRUE, "li")>>
                  ELSE <<Field("V", SliceT(STRING_T), TRUE, "a->G(x, y)")>>,
                  IF recv = "value" /\ where = (IF n = "Root" THEN "stack" ELSE "own")
                  THEN {"G"} ELSE {},
                  IF recv = "pointer" /\ where = (IF n = "Root" THEN "stack" ELSE "own")
                  THEN {"G"} ELSE {},
                  IF where = (IF n = "Root" THEN "stack" ELSE "own")
                  THEN [m \in {"G"} |-> beh] ELSE NoBeh)]

InitArgs ==
    \E where \in {"own", "stack", "registry"}, recv \in {"value", "pointer"},
       beh \in {Echo, RetSel}, reg \in {Echo, RetSel}, n \in 1..MaxNodes :
        /\ schema = ArgsSchema(where, recv, beh)
        /\ doc = DocOf(n)
        /\ mapFuncs = [f \in {"G"} |-> reg]
        /\ mapTags = EmptyCaches
        /\ Config = Cfg("args", FALSE, "setRefectValue", 1)
        /\ binds = OneEngine(FreshRoot)

InitMethod ==
    \E shape \in Shapes, recv \in Methods, op \in {"fill", "err"}, ignored \in BOOLEAN,
       reg \in {"none", "err", "const"}, last \in {"a", "li->("} :
        /\ schema = MethodSchema(shape, recv, op, ignored, last)
        /\ doc = DocOf(MaxNodes)
        /\ mapFuncs = [f \in (IF reg = "none" THEN {} ELSE {"M"}) |->
                          IF reg = "err" THEN RetErr ELSE Const(Str(<<"g">>))]
        /\ mapTags = EmptyCaches
        /\ Config = Cfg("method", FALSE, "setRefectValue", 1)
        /\ binds = OneEngine(MethodTarget(shape))

Init ==
    /\ registered = <<>>
    /\ \/ InitTarget \/ InitResolve \/ InitCast \/ InitSlice \/ InitCache \/ InitMethod
       \/ InitConcurrent \/ InitRegister \/ InitRecursive \/ InitShape \/ InitArgs
    /\ tagPtrs = [e \in Engines |-> [raw \in DOMAIN mapTags[e] |-> 0]]

Next ==
    \/ \E b \in Binds :
           \/ ParseSelection(b)
           \/ DoParsePointer(b)
           \/ StructLoadTag(b)
           \/ StructStoreTag(b)
           \/ StructExecField(b)
           \/ DoParseSlice(b)
           \/ SliceItem(b)
           \/ Return(b)
    \/ \E name \in RegNames, fn \in RegFns : RegisterFunc(name, fn)

Spec == Init /\ [][Next]_vars

-----------------------------------------------------------------------------
(* What the claims speak of, read off the Go types and the target and not  *)
(* off the binder's own bookkeeping                                        *)

Started(b) == binds[b].status # "idle"
Ended(b) == binds[b].status \in Finished
Calls(b) == {binds[b].calls[j] : j \in 1..Len(binds[b].calls)}
LastCall(b) == binds[b].calls[Len(binds[b].calls)]

\* The Go type has a method of that name, on T or on *T.
HasMethod(name, funcName) == funcName \in schema[name].vmeth \cup schema[name].pmeth

\* The static type of the place that a path from the target v leads to.
RECURSIVE TypeAtPath(_, _)
TypeAtPath(t, path) ==
    IF path = <<>> THEN t
    ELSE IF t.kind = "struct"
         THEN TypeAtPath(schema[t.name].fields[Head(path)].ty, Tail(path))
         ELSE TypeAtPath(t.elem, Tail(path))

Prefixes(path) == {SubSeq(path, 1, j) : j \in 0..(Len(path) - 1)}

\* The structs that enclose the struct at path abs of bind b's target, and
\* those of them whose type has the method.
Enclosing(b, abs) ==
    {q \in Prefixes(abs) : TypeAtPath(TypeOf(binds[b].v0), q).kind = "struct"}
EnclosingWith(b, abs, funcName) ==
    {q \in Enclosing(b, abs) :
        HasMethod(TypeAtPath(TypeOf(binds[b].v0), q).name, funcName)}
Innermost(paths) == CHOOSE q \in paths : \A r \in paths : Len(r) <= Len(q)

\* ParseSelection's three checks, as the claim lists them.
InvalidTarget(v) == v.k # "ptr" \/ v.nil \/ v.e.k # "struct"

\* The bind is returning an error: it has returned one, or the frame on top
\* is returning one to its caller.
Failing(b) ==
    \/ binds[b].status = "error"
    \/ /\ Running(b)
       /\ Top(binds[b]).pc = "done"
       /\ Top(binds[b]).err # NoErr

-----------------------------------------------------------------------------
(* C1..C5: the target check and function resolution *)

\* C1: a bind whose target is not a pointer, is a nil pointer or points to a
\* non-struct returns an error before any traversal: nothing is assigned,
\* parsed, cached, selected or called.
C1_InvalidTargetReturnsError ==
    \A b \in Binds :
        (Started(b) /\ InvalidTarget(binds[b].v0)) =>
            /\ binds[b].status = "error"
            /\ binds[b].v = binds[b].v0
            /\ binds[b].parsed = <<>> /\ binds[b].found = <<>> /\ binds[b].calls = <<>>
            /\ DOMAIN mapTags[binds[b].engine] = {}

\* C2: for a field whose tag names F, when the struct being populated has a
\* method F (value or pointer receiver) and the registry has F too, the
\* method of that very struct is called and not the registry's function.
C2_OwnMethodBeforeRegistry ==
    \A b \in Binds : \A c \in Calls(b) :
        (HasMethod(c.val.name, c.name) /\ c.name \in DOMAIN mapFuncs) =>
            (c.via = "own" /\ c.recvAbs = c.abs /\ c.recv.name = c.val.name)

C2_Witness ==
    \E c \in Calls(1) :
        /\ c.name \in schema[c.val.name].pmeth /\ c.name \in DOMAIN mapFuncs
        /\ c.via = "own" /\ c.new = Str(<<"m">>)
        /\ binds[1].status = "ok"

\* C3: when the struct being populated has no method F and two or more of
\* the structs enclosing it have one, the method of the innermost of those
\* is called, however many fields the enclosing structs have gone through.
C3_NearestAncestorWins ==
    \A b \in Binds : \A c \in Calls(b) :
        LET with == EnclosingWith(b, c.abs, c.name)
        IN  (~HasMethod(c.val.name, c.name) /\ Cardinality(with) >= 2) =>
                /\ c.via = "stack"
                /\ c.recvAbs = Innermost(with)
                /\ c.recv.name = TypeAtPath(TypeOf(binds[b].v0), Innermost(with)).name

C3_Witness ==
    \E c \in Calls(1) :
        /\ c.val.name = "Leaf" /\ ~HasMethod("Leaf", c.name)
        /\ Cardinality(EnclosingWith(1, c.abs, c.name)) = 2
        /\ c.recv.name = "Mid" /\ c.new = Str(<<"m">>)
        /\ NumField("Root") = 2 + MaxPre /\ NumField("Mid") = 2 + MaxPre
        /\ c.name \in DOMAIN mapFuncs
        /\ binds[1].status = "ok"

\* C4: a registry entry F is called for a field only if neither the struct
\* being populated nor any struct enclosing it has a method F; if an
\* enclosing struct has one and the registry has F, the method is called.
C4_RegistryLast ==
    \A b \in Binds : \A c \in Calls(b) :
        LET with == EnclosingWith(b, c.abs, c.name)
        IN  /\ c.via = "registry" => (~HasMethod(c.val.name, c.name) /\ with = {})
            /\ (~HasMethod(c.val.name, c.name) /\ with # {} /\ c.name \in DOMAIN mapFuncs) =>
                    (c.via = "stack" /\ c.recvAbs \in with)

C4_Witness ==
    /\ \E c \in Calls(1) :
          /\ c.via = "stack" /\ c.name \in DOMAIN mapFuncs
          /\ c.val.name = "Mid" /\ c.recv.name = "Root" /\ c.new = Str(<<"r">>)
    /\ binds[1].status = "ok"

\* C5: when the function a tag names is no method of the struct being
\* populated, no method of a struct enclosing it and no registry entry, the
\* bind returns an error, the field keeps its value and nothing more is
\* called.
C5_FunctionNotFoundFails ==
    \A b \in Binds : \A c \in Calls(b) :
        ( /\ ~HasMethod(c.val.name, c.name)
          /\ EnclosingWith(b, c.abs, c.name) = {}
          /\ c.name \notin DOMAIN mapFuncs ) =>
            /\ Failing(b)
            /\ c.new = c.old
            /\ c = LastCall(b)
            /\ Ended(b) => binds[b].err.kind = "method not found"

C5_Witness ==
    /\ binds[1].status = "error"
    /\ binds[1].err.kind = "method not found"
    /\ LastCall(1).val.name = "Leaf"
    /\ Len(binds[1].calls) = 1

-----------------------------------------------------------------------------
(* C6, C7: the cast of a function's terminal result *)

ScalarKinds == {"bool", "string"} \cup IntKinds \cup UintKinds \cup FloatKinds
IsScalarOrSliceOfScalar(t) ==
    t.kind \in ScalarKinds \/ (t.kind = "slice" /\ t.elem.kind \in ScalarKinds)

\* The value can be converted to the type: a scalar as the cast library
\* converts it, a slice of scalars element by element, any other type only
\* from a value of that type.
RECURSIVE Convertible(_, _)
Convertible(v, t) ==
    CASE t.kind = "bool" -> ToBoolE(v).ok
      [] t.kind \in IntKinds \cup FloatKinds -> ToInt64E(v).ok
      [] t.kind \in UintKinds -> ToUint64E(v).ok
      [] t.kind = "string" -> ToStringE(v).ok
      [] t.kind = "slice" /\ t.elem.kind = "string" -> ToStringSliceE(v).ok
      [] t.kind = "slice" /\ t.elem.kind \in ScalarKinds ->
            v.k = "slice" /\ \A j \in 1..Len(v.e) : Convertible(v.e[j], t.elem)
      [] OTHER -> v.k # "nil" /\ TypeOf(v) = t

\* The zero value of the type; an empty slice counts as the zero slice.
IsZeroOf(x, t) == x = Zero(t) \/ (t.kind = "slice" /\ x.k = "slice" /\ x.e = <<>>)

FieldType(b, c) == TypeAtPath(TypeOf(binds[b].v0), c.field)

\* The bind is returning the error of a cast.
CastFailed(b) ==
    \/ binds[b].status = "error" /\ binds[b].err.kind = "cast"
    \/ /\ Running(b)
       /\ Top(binds[b]).pc = "done"
       /\ Top(binds[b]).err.kind = "cast"

\* C6: with CastError enabled, whenever the terminal result of a field's
\* function cannot be converted to the field's scalar or slice-of-scalar
\* type, the bind returns an error and the field keeps the value it had.
C6_CastErrorFailsBind ==
    \A b \in Binds : \A c \in Calls(b) :
        ( /\ Config.CastError
          /\ c.via # "" /\ c.out.k # "sel"
          /\ IsScalarOrSliceOfScalar(FieldType(b, c))
          /\ ~Convertible(c.out, FieldType(b, c)) ) =>
            /\ CastFailed(b)
            /\ c.new = c.old

\* C7: with CastError disabled, for every terminal result and every field
\* type, a conversion failure does not fail the bind: the cast returns no
\* error and the field holds the zero value of its type.
C7_NoCastErrorGivesZero ==
    \A b \in Binds : \A c \in Calls(b) :
        ( /\ ~Config.CastError
          /\ c.via # "" /\ c.out.k # "sel"
          /\ ~Convertible(c.out, FieldType(b, c)) ) =>
            /\ ~CastFailed(b)
            /\ c = LastCall(b) => binds[b].status # "panic"
            /\ IsZeroOf(c.new, FieldType(b, c))

-----------------------------------------------------------------------------
(* C8, C9: slices *)

\* The nodes that the tag of the slice field L selects, in document order.
MatchedNodes ==
    IF schema["Root"].fields[1].tagValue = ".none" THEN <<>>
    ELSE SortedSeq({n \in DOMAIN doc : doc[n].label = "li"})

\* What an element of type e holds once bound from the i-th li of the
\* document, whose text is the digit i.
BoundFrom(e, i) ==
    LET text == Str(<<Digits[i + 1]>>)
    IN  CASE e.kind = "string" -> text
          [] e.kind = "struct" -> StructV(e.name, <<text>>)
          [] OTHER -> PtrTo(e.elem, StructV(e.elem.name, <<text>>))

SliceField(b) == GetAt(binds[b].v, <<0, 1>>)

\* C8: a slice field entered with a selection of n nodes holds, after a
\* successful bind, exactly n elements, and element i was bound from the
\* i-th node, whatever the field held before (nil, shorter, longer).
C8_SliceHoldsOneElementPerNode ==
    \A b \in Binds :
        (Config.family = "slice" /\ binds[b].status = "ok") =>
            /\ Len(SliceField(b).e) = Len(MatchedNodes)
            /\ \A i \in 1..Len(MatchedNodes) :
                  SliceField(b).e[i] = BoundFrom(SliceField(b).ty.elem, i)

\* C9: the bind of a slice field whose selection matches no node succeeds
\* and leaves the field a non-nil slice of length 0.
C9_NoMatchGivesEmptySlice ==
    \A b \in Binds :
        (Config.family = "slice" /\ Ended(b) /\ MatchedNodes = <<>>) =>
            /\ binds[b].status = "ok"
            /\ ~SliceField(b).nil
            /\ SliceField(b).e = <<>>

-----------------------------------------------------------------------------
(* C10: the expression cache *)

\* C10: two binds of the same struct type and document into fresh targets,
\* one on an engine whose cache is empty and one on an engine whose cache
\* holds some or all of the type's tags, end alike: the same outcome, error
\* and target, the same selectors resolved and functions called.
C10_CacheTransparent ==
    (Config.family = "cache" /\ Ended(1) /\ Ended(2)) =>
        /\ binds[1].status = binds[2].status
        /\ binds[1].err = binds[2].err
        /\ binds[1].v = binds[2].v
        /\ binds[1].calls = binds[2].calls
        /\ binds[1].found = binds[2].found

C10_Witness ==
    /\ Config.family = "cache"
    /\ binds[1].status = "ok" /\ binds[2].status = "ok"
    /\ binds[1].parsed = <<"a", "li", "a->G(x, y)", "->F()">>
    /\ binds[2].parsed = <<"li">>
    /\ GetAt(binds[2].v, <<0, 3>>) = Num("int", 42)
    /\ Len(GetAt(binds[2].v, <<0, 2>>).e) = MaxNodes

-----------------------------------------------------------------------------
(* C11: fields without tag or with the ignore symbol *)

\* The paths inside a value at which a struct sits.
RECURSIVE PathsIn(_)
PathsIn(v) ==
    CASE v.k = "ptr" -> IF v.nil THEN {} ELSE {<<0>> \o q : q \in PathsIn(v.e)}
      [] v.k = "struct" ->
            {<<>>} \cup UNION {{<<i>> \o q : q \in PathsIn(v.f[i])} : i \in 1..Len(v.f)}
      [] v.k = "slice" -> UNION {{<<i>> \o q : q \in PathsIn(v.e[i])} : i \in 1..Len(v.e)}
      [] OTHER -> {}

\* Field i of the struct type has no tag, or its tag is the ignore symbol.
Skipped(name, i) ==
    ~schema[name].fields[i].tagOk \/ schema[name].fields[i].tagValue = ignoreSymbol

\* A method with a pointer receiver has written the place as its side effect.
WrittenByMethod(b, path) ==
    \E c \in Calls(b) :
        /\ c.via \in {"own", "stack"}
        /\ c.name \in schema[c.recv.name].pmeth \ schema[c.recv.name].vmeth
        /\ schema[c.recv.name].beh[c.name].op = "fill"
        /\ path = Append(c.recvAbs, schema[c.recv.name].beh[c.name].idx)

\* The value the place had before the bind: the caller's, or the zero value
\* when the binder has made the struct around it.
Before(b, path) ==
    IF SubSeq(path, 1, Len(path) - 1) \in PathsIn(binds[b].v0) THEN GetAt(binds[b].v0, path)
    ELSE Zero(TypeAtPath(TypeOf(binds[b].v0), path))

\* The tags of the fields that are not skipped, and the tags that a cache
\* has held from the start.
TagsToBind ==
    UNION {{schema[n].fields[i].tagValue : i \in {j \in 1..NumField(n) : ~Skipped(n, j)}} :
              n \in DOMAIN schema}
WarmTags == {"a", "li", "a->G(x, y)", "->F()"}

\* C11: a field without tag, or tagged with the ignore symbol "-", is
\* skipped: the binder leaves its value as it was, parses and caches no
\* expression for it, calls no function for it, and an error of the bind
\* comes from the tag or the function of another field.
C11_UntaggedFieldSkipped ==
    \A b \in Binds : Started(b) =>
        /\ \A q \in PathsIn(binds[b].v) :
              \A i \in 1..NumField(GetAt(binds[b].v, q).name) :
                  Skipped(GetAt(binds[b].v, q).name, i) =>
                      /\ WrittenByMethod(b, Append(q, i))
                            \/ GetAt(binds[b].v, Append(q, i)) = Before(b, Append(q, i))
                      /\ \A c \in Calls(b) : c.field # Append(q, i)
        /\ Range(binds[b].parsed) \subseteq TagsToBind
        /\ DOMAIN mapTags[binds[b].engine] \subseteq TagsToBind \cup WarmTags
        /\ (binds[b].status = "error" /\ ~InvalidTarget(binds[b].v0)) =>
              IF binds[b].err.kind = "newTag" THEN binds[b].parsed # <<>>
              ELSE binds[b].calls # <<>>

C11_Witness ==
    /\ Config.family = "method"
    /\ binds[1].status = "ok"
    /\ Skipped("Root", 2) /\ schema["Root"].fields[2].tagValue = ignoreSymbol
    /\ binds[1].v0.e.f[2] = Str(<<"o">>)
    /\ binds[1].v.e.f = <<Str(<<"g">>), Str(<<"o">>), Str(<<"1", Space, Space, "2">>)>>
    /\ binds[1].parsed = <<"->M()", "a">>
    /\ binds[1].found = <<"a">>

-----------------------------------------------------------------------------
(* C12: declaration order, and the stop at the first error *)

\* The frames that a step keeps: those below the top of the shorter stack.
Kept(b) ==
    1..(IF Len(binds[b].frames) <= Len(binds'[b].frames)
        THEN Len(binds[b].frames) ELSE Len(binds'[b].frames))

\* C12: the fields of a struct (and the nodes of a slice) are gone through
\* in order, one at a time; once a field has produced an error the bind
\* assigns nothing more, goes on to no later field or slice element, calls
\* no further function and ends with an error.
C12_StopAtFirstError ==
    [][\A b \in Binds :
          /\ \A j \in Kept(b) :
                binds[b].frames[j].pc # "enter" =>
                    binds'[b].frames[j].i
                        \in {binds[b].frames[j].i, binds[b].frames[j].i + 1}
          /\ Failing(b) =>
                /\ Failing(b)'
                /\ binds'[b].v = binds[b].v
                /\ binds'[b].calls = binds[b].calls
                /\ binds'[b].found = binds[b].found
                /\ binds'[b].parsed = binds[b].parsed
                /\ Len(binds'[b].frames) <= Len(binds[b].frames)
                /\ \A j \in Kept(b) :
                      /\ binds'[b].frames[j].i = binds[b].frames[j].i
                      /\ binds'[b].frames[j].buf = binds[b].frames[j].buf]_vars

C12_Witness ==
    /\ Config.family = "method"
    /\ schema["Root"].fields[1].ty = SliceT(StructT("Holder"))
    /\ Len(Find(<<1>>, "li")) >= 2
    /\ binds[1].status = "error"
    /\ binds[1].err = [kind |-> "method return error", tags |-> <<"li", "->M()">>]
    /\ Len(binds[1].calls) = 1
    /\ binds[1].v = binds[1].v0

-----------------------------------------------------------------------------
(* C13: the tag text in the errors *)

\* The raw tag of the field that a call was made for.
RawTagOf(b, c) ==
    schema[TypeAtPath(TypeOf(binds[b].v0), c.abs).name].fields[c.field[Len(c.field)]].tagValue

CallErrors ==
    {"method not found", "method return error", "call registered func error", "cast"}

\* C13, for the errors that doParseStruct wraps itself: the error of a
\* function that is not found or fails, and of a strict cast, carries the
\* raw tag of its field innermost, also for a field of the root struct.  (An
\* error of newTag is passed on as newTag made it.)
C13_CallErrorsCarryFieldTag ==
    \A b \in Binds :
        (binds[b].status = "error" /\ binds[b].err.kind \in CallErrors) =>
            /\ binds[b].err.tags # <<>>
            /\ binds[b].err.tags[Len(binds[b].err.tags)] = RawTagOf(b, LastCall(b))

-----------------------------------------------------------------------------
(* C14: errors of the called function *)

\* The function that the call went to reports an error.
FunctionFails(c) ==
    \/ c.via \in {"own", "stack"} /\ schema[c.recv.name].beh[c.name].op = "err"
    \/ c.via = "registry" /\ mapFuncs[c.name].op = "err"

\* C14: when the function called for a field reports an error (a registered
\* function returning one, a method whose last return value is one), the
\* bind fails with that error and the field keeps its value.
C14_FunctionErrorFailsBind ==
    \A b \in Binds : \A c \in Calls(b) :
        FunctionFails(c) =>
            /\ Failing(b)
            /\ c.new = c.old
            /\ c = LastCall(b)
            /\ Ended(b) =>
                  binds[b].err.kind = (IF c.via = "registry" THEN "call registered func error"
                                       ELSE "method return error")

C14_Witness ==
    /\ Config.family = "method"
    /\ binds[1].status = "error"
    /\ binds[1].err = [kind |-> "call registered func error", tags |-> <<"a", "->M()">>]
    /\ LastCall(1).via = "registry" /\ mapFuncs["M"].op = "err"
    /\ LastCall(1).old = Str(<<"o">>) /\ LastCall(1).new = Str(<<"o">>)
    /\ binds[1].v = binds[1].v0

-----------------------------------------------------------------------------
(* C15: binds at the same time on one engine *)

\* C15: when callers bind at the same time on one engine, into targets of
\* their own and with no registration going on, the cache maps, after every
\* interleaving of their lookups and stores, each raw tag to the parse of
\* that tag, and each bind ends as the bind that ran alone has ended.
C15_ConcurrentBindsAgree ==
    /\ \A e \in Engines : \A raw \in DOMAIN mapTags[e] :
          newTag(raw).ok /\ mapTags[e][raw] = newTag(raw).tag
    /\ Config.family = "concurrent" =>
          \A b \in {2, 3} : Ended(b) =>
              /\ binds[b].status = binds[1].status
              /\ binds[b].err = binds[1].err
              /\ binds[b].v = binds[1].v
              /\ binds[b].calls = binds[1].calls
              /\ binds[b].found = binds[1].found

\* Both callers have missed and parsed the tag "a", each has found a tag the
\* other had stored, and both have ended well.
C15_Witness ==
    /\ Config.family = "concurrent"
    /\ binds[1].status = "ok" /\ binds[2].status = "ok" /\ binds[3].status = "ok"
    /\ binds[2].engine = binds[3].engine
    /\ "a" \in Range(binds[2].parsed) \cap Range(binds[3].parsed)
    /\ "li" \notin Range(binds[3].parsed)
    /\ "a->G(x, y)" \notin Range(binds[2].parsed)
    /\ binds[2].v.e.f[3] = Num("int", 42)

-----------------------------------------------------------------------------
(* C16: registrations *)

\* The registrations of a name that have returned, by their place in the order
WritesOf(name) == {j \in 1..Len(registered) : registered[j].name = name}
LastOf(js) == CHOOSE j \in js : \A i \in js : i <= j

\* The registry holds for each registered name the function written last,
\* and for every other name what it held at the start.
LastWriteWins ==
    \A name \in RegNames \cup DOMAIN builtinFuncs :
        IF WritesOf(name) # {}
        THEN /\ name \in DOMAIN mapFuncs
             /\ mapFuncs[name] = registered[LastOf(WritesOf(name))].fn
        ELSE /\ name \in DOMAIN mapFuncs <=> name \in DOMAIN builtinFuncs
             /\ name \in DOMAIN mapFuncs => mapFuncs[name] = builtinFuncs[name]

\* A call of a registered function made in this step returns what a function
\* registered for its name returns, and for every registration of the name
\* that had returned before the step, that one's or a later one's.
LookupSeesRegistration(b) ==
    Len(binds'[b].calls) > Len(binds[b].calls) =>
        LET c == binds'[b].calls[Len(binds'[b].calls)]
        IN  c.via = "registry" =>
                \A j \in WritesOf(c.name) :
                    \E k \in WritesOf(c.name) : k >= j /\ c.out = registered[k].fn.v

\* C16: registering a function under a name the registry has replaces the
\* entry: in every order of the registrations the registry holds for the
\* name the function written last, every other name keeps what it had, and
\* a lookup after a registration has returned gives that function or one
\* registered later.
C16_LastRegistrationWins ==
    /\ [](Config.family = "register" => LastWriteWins)
    /\ [][Config.family = "register" => \A b \in Binds : LookupSeesRegistration(b)]_vars

\* Two functions were registered for F one after the other; the field bound
\* between the two holds the first one's value, the field bound after the
\* second holds the second one's, and the registry holds the second.
C16_Witness ==
    /\ Config.family = "register"
    /\ Len(registered) = 2
    /\ registered[1].name = "F" /\ registered[2].name = "F"
    /\ registered[1].fn # registered[2].fn
    /\ binds[1].status = "ok"
    /\ binds[1].v.e.f[1] = registered[1].fn.v
    /\ binds[1].v.e.f[2] = registered[2].fn.v
    /\ mapFuncs["F"] = registered[2].fn

-----------------------------------------------------------------------------
(* C17: the side effect of a method with a pointer receiver *)

\* The calls of methods with a pointer receiver that fill a field of their
\* receiver besides returning a value.
FillCalls(b) ==
    {c \in Calls(b) :
        /\ c.via \in {"own", "stack"}
        /\ c.name \in schema[c.recv.name].pmeth \ schema[c.recv.name].vmeth
        /\ schema[c.recv.name].beh[c.name].op = "fill"}

C17_FailingBindKeeps ==
    \A b \in Binds :
        (Config.family = "method" /\ binds[b].status = "error") =>
            \A c \in FillCalls(b) :
                schema["Root"].fields[1].ty.kind # "slice" => c.recvAbs \in PathsIn(binds[b].v)

-----------------------------------------------------------------------------
(* C18: termination *)

\* A bind that has used up the stack takes no further step: the program ends
\* with a fatal error and the call does not return.
StackOverflow(b) == binds[b].status = "overflow"

\* C18: a bind into a valid struct type, also one with a tagged pointer
\* field to its own type, whose functions all return, returns in the end
\* with success or an error: its nested calls never use up the stack, the
\* one way for such a bind not to return.
C18_BindReturns == \A b \in Binds : ~StackOverflow(b)

\* The stack is used up only through the pointer to the struct's own type;
\* with a slice of its own type the struct is bound down to the last node.
C18_OverflowOnlyBySelfPointer ==
    \A b \in Binds :
        StackOverflow(b) =>
            Config.family = "recursive" /\ schema["Root"].fields[2].ty.kind = "ptr"

-----------------------------------------------------------------------------
(* C19: what a function's result does to the field *)

\* The calls that have returned a value and no error.
Returned(b) == {c \in Calls(b) : c.via # "" /\ ~FunctionFails(c)}

\* C19: when the function called for a field returns a selection, the field
\* is bound with that selection as its node: a pointer, struct or slice is
\* entered with it, a scalar gets its trimmed text.  When the function
\* returns any other value, the value is cast and assigned and the field is
\* not entered, whatever its shape.
C19_SelectionRecursesTerminalAssigns ==
    \A b \in Binds : \A c \in Returned(b) :
        /\ ~c.panic
        /\ IF c.out.k = "sel"
           THEN IF FieldType(b, c).kind \in {"ptr", "struct", "slice"}
                THEN c.rec /\ c.sel = c.out.v
                ELSE ~c.rec /\ c.new = Str(TrimSpace(Text(c.out.v)))
           ELSE /\ ~c.rec
                /\ (c.out.k # "nil" /\ TypeOf(c.out) = FieldType(b, c)) => c.new = c.out

\* The same for the results that the code can bind: a selection for a
\* pointer, struct, slice or string field, and a terminal value that the
\* caster converts or that has the field's type.
C19_WhereTheFieldTakesTheResult ==
    \A b \in Binds : \A c \in Returned(b) :
        IF c.out.k = "sel"
        THEN FieldType(b, c).kind \in {"ptr", "struct", "slice", "string"} =>
                /\ ~c.panic
                /\ IF FieldType(b, c).kind = "string"
                   THEN ~c.rec /\ c.new = Str(TrimSpace(Text(c.out.v)))
                   ELSE c.rec /\ c.sel = c.out.v
        ELSE /\ ~c.rec
             /\ (IsScalarOrSliceOfScalar(FieldType(b, c)) /\ c.out.k # "slice"
                 /\ FieldType(b, c).kind # "slice") => ~c.panic
             /\ (c.out.k # "nil" /\ TypeOf(c.out) = FieldType(b, c)) =>
                    ~c.panic /\ c.new = c.out

-----------------------------------------------------------------------------
(* C20: text leaves *)

\* Field i of the root struct is tagged, names no function and has a scalar
\* kind: any kind but pointer, struct and slice.
TextLeaf(i) ==
    /\ schema["Root"].fields[i].tagOk
    /\ schema["Root"].fields[i].tagValue # ignoreSymbol
    /\ newTag(schema["Root"].fields[i].tagValue).ok
    /\ newTag(schema["Root"].fields[i].tagValue).tag.FuncName = ""
    /\ schema["Root"].fields[i].ty.kind \notin {"ptr", "struct", "slice"}

\* The node of the root struct's field i: what its selector finds in the
\* document, or the document's root when the selector is empty.
NodeOfRootField(i) == nodeOf(<<1>>, newTag(schema["Root"].fields[i].tagValue).tag)

\* The bind has panicked while binding field i of the root struct.
PanickedAt(b, i) ==
    /\ binds[b].status = "panic"
    /\ Len(binds[b].frames) = 2
    /\ Top(binds[b]).fn = "struct" /\ Top(binds[b]).i = i

\* C20: a tagged field without function whose kind is scalar is assigned
\* the trimmed text of the node its selector resolves (the current node
\* when the selector is empty), and the bind goes on with the next field.
C20_TextLeafGetsTrimmedText ==
    \A b \in Binds : (Started(b) /\ ~InvalidTarget(binds[b].v0)) =>
        \A i \in 1..NumField("Root") : TextLeaf(i) =>
            /\ ~PanickedAt(b, i)
            /\ binds[b].status = "ok" =>
                  binds[b].v.e.f[i] = Str(TrimSpace(Text(NodeOfRootField(i))))

\* The same for the fields of string kind.
C20_StringLeafGetsTrimmedText ==
    \A b \in Binds : (Started(b) /\ ~InvalidTarget(binds[b].v0)) =>
        \A i \in 1..NumField("Root") :
            (TextLeaf(i) /\ schema["Root"].fields[i].ty.kind = "string") =>
                /\ ~PanickedAt(b, i)
                /\ binds[b].status = "ok" =>
                      binds[b].v.e.f[i] = Str(TrimSpace(Text(NodeOfRootField(i))))

-----------------------------------------------------------------------------
(* C21: a sequence cast into a slice of scalars *)

\* The calls whose result is a sequence that can be converted, element by
\* element, to the scalar element kind of their slice field.
SequenceCalls(b) ==
    {c \in Returned(b) :
        /\ c.out.k = "slice"
        /\ FieldType(b, c).kind = "slice"
        /\ FieldType(b, c).elem.kind \in ScalarKinds
        /\ \A j \in 1..Len(c.out.e) : Convertible(c.out.e[j], FieldType(b, c).elem)}

\* The element x as a scalar field of that kind would hold it.
ElemAs(kind, x) == setRefectValue(TRUE, Scalar(kind), Zero(Scalar(kind)), x).v

\* The field holds the sequence converted element by element.
HoldsConverted(b, c) ==
    /\ ~c.panic
    /\ c.new.k = "slice"
    /\ Len(c.new.e) = Len(c.out.e)
    /\ \A j \in 1..Len(c.out.e) :
          c.new.e[j] = ElemAs(FieldType(b, c).elem.kind, c.out.e[j])

\* C21: for a slice field whose element kind is bool, an integer of any
\* width, signed or not, a float or string, a terminal result that is a
\* sequence is converted element by element to that kind, in its length and
\* order, and stored in the field.
C21_SequenceConvertedPointwise ==
    \A b \in Binds : \A c \in SequenceCalls(b) : HoldsConverted(b, c)

\* The same for the element kinds that the casters convert.
C21_HandledKindsConvertedPointwise ==
    \A b \in Binds : \A c \in SequenceCalls(b) :
        FieldType(b, c).elem.kind \in SliceCastKinds => HoldsConverted(b, c)

-----------------------------------------------------------------------------
(* C22: the entries of the expression cache *)

\* The step keeps each key of every cache, with the *tagTokenizer under it.
EntriesKept ==
    \A e \in Engines : \A raw \in DOMAIN mapTags[e] :
        /\ raw \in DOMAIN mapTags'[e]
        /\ mapTags'[e][raw] = mapTags[e][raw]
        /\ tagPtrs'[e][raw] = tagPtrs[e][raw]

\* C22: once the cache holds an entry for a raw tag, the key is never
\* removed and the expression under it is never replaced by a later bind,
\* also when two binds at the same time both miss the key and parse it.
C22_EntryNeverReplaced == [][EntriesKept]_vars

\* No key is ever removed, and the expression under a key always has the
\* same selector, function and arguments.
C22_EntryKeepsItsValue ==
    [][\A e \in Engines : \A raw \in DOMAIN mapTags[e] :
          raw \in DOMAIN mapTags'[e] /\ mapTags'[e][raw] = mapTags[e][raw]]_vars

\* Binds one after another never store under a key that the cache holds.
C22_SequentialBindsStoreOnce ==
    [][Config.family # "concurrent" => EntriesKept]_vars

-----------------------------------------------------------------------------
(* C23: the arguments of a call *)

\* What the function of a call does, and the arguments that its tag names.
BehOf(c) ==
    IF c.via = "registry" THEN mapFuncs[c.name] ELSE schema[c.recv.name].beh[c.name]
TagArgs(b, c) == newTag(RawTagOf(b, c)).tag.FuncParams
Words(args) == SliceOf(Scalar("string"), [j \in 1..Len(args) |-> Str(<<args[j]>>)])

\* C23: a function found as a method, of the struct itself or of a struct
\* around it, is called with the resolved node as its only argument: the
\* arguments of the tag are not passed.  A function found in the registry
\* is called with the resolved node and then the arguments of the tag in
\* the order they are written.
C23_MethodsGetNodeOnly ==
    \A b \in Binds : \A c \in Calls(b) :
        /\ c.via \in {"own", "stack"} =>
              /\ c.params = <<>>
              /\ BehOf(c).op = "echo" => c.out = Words(<<>>)
        /\ c.via = "registry" =>
              /\ c.params = TagArgs(b, c)
              /\ BehOf(c).op = "echo" => c.out = Words(TagArgs(b, c))
        /\ (c.via # "" /\ BehOf(c).op = "sel") => c.out = Sel(c.node)
        /\ (c.via # "" /\ Config.family = "args") => c.node = Find(Find(<<1>>, "li"), "a")

\* A method with a pointer receiver of the struct around has been called
\* for a tag with two arguments and got none; the field holds the empty
\* sequence.
C23_Witness ==
    /\ Config.family = "args"
    /\ binds[1].status = "ok"
    /\ Len(doc) = 2 * MaxNodes + 1
    /\ \E c \in Calls(1) :
          /\ c.via = "stack" /\ c.recv.name = "Root" /\ c.val.name = "Inner"
          /\ "G" \in schema["Root"].pmeth
          /\ BehOf(c).op = "echo" /\ mapFuncs["G"].op = "echo"
          /\ TagArgs(1, c) = <<"x", "y">>
          /\ c.node = <<3, 5>>
          /\ c.new = Words(<<>>)

\* The registered function has been called with both arguments in order.
C23_RegistryWitness ==
    /\ Config.family = "args"
    /\ binds[1].status = "ok"
    /\ \E c \in Calls(1) :
          c.via = "registry" /\ BehOf(c).op = "echo" /\ c.new = Words(<<"x", "y">>)

-----------------------------------------------------------------------------
(* C24: nil pointers *)

\* The step in which doParsePointer is entered for the bind b: the pointer
\* is not nil afterwards, a nil pointer points to a new zero value and any
\* other is kept, and the pointee is entered with the pointer's node.
PointerEntered(b) ==
    (At(b, "ptr", "enter") /\ binds'[b] # binds[b]) =>
        /\ ~Read(binds'[b], Top(binds[b]).loc).nil
        /\ IF Read(binds[b], Top(binds[b]).loc).nil
           THEN Read(binds'[b], Top(binds[b]).loc).e
                    = Zero(Read(binds[b], Top(binds[b]).loc).ty.elem)
           ELSE Read(binds'[b], Top(binds[b]).loc) = Read(binds[b], Top(binds[b]).loc)
        /\ binds'[b].status = "running" =>
              /\ Len(binds'[b].frames) = Len(binds[b].frames) + 1
              /\ Top(binds'[b]).loc = Sub(Top(binds[b]).loc, 0)
              /\ Top(binds'[b]).sel = Top(binds[b]).sel
              /\ Top(binds'[b]).stack = Top(binds[b]).stack

\* The tagged pointer fields of the structs in the target that no function
\* is bound to.
EnteredPointers(b) ==
    {p \in UNION {{Append(q, i) : i \in 1..NumField(GetAt(binds[b].v, q).name)} :
                    q \in PathsIn(binds[b].v)} :
        LET fd == schema[GetAt(binds[b].v, SubSeq(p, 1, Len(p) - 1)).name].fields[p[Len(p)]]
        IN  /\ fd.ty.kind = "ptr"
            /\ fd.tagOk /\ fd.tagValue # ignoreSymbol
            /\ newTag(fd.tagValue).ok /\ newTag(fd.tagValue).tag.FuncName = ""}

\* C24: when the binder enters a nil pointer it sets the pointer to a new
\* zero value of the pointee type and binds the pointee with the node that
\* was passed to the pointer; after a successful bind the pointer is not
\* nil, also when the node matches nothing.
C24_NilPointerAllocated ==
    /\ [][\A b \in Binds : PointerEntered(b)]_vars
    /\ [](\A b \in Binds : binds[b].status = "ok" =>
             \A p \in EnteredPointers(b) : ~GetAt(binds[b].v, p).nil)

\* The selector of the pointer field has matched nothing: the pointer was
\* nil, and points to a struct with empty text after the bind.
C24_Witness ==
    /\ Config.family = "shape"
    /\ schema["Root"].fields[1].ty.kind = "ptr"
    /\ schema["Root"].fields[1].tagValue = ".none"
    /\ binds[1].status = "ok"
    /\ binds[1].v0.e.f[1].nil
    /\ binds[1].found = <<".none", "a">>
    /\ binds[1].v.e.f[1] = PtrTo(StructT("Item"), StructV("Item", <<Str(<<>>)>>))

-----------------------------------------------------------------------------
(* C25: the ancestor chain *)

\* The struct frames of a bind, where functions are resolved.
StructFrames(b) == {j \in 1..Len(binds[b].frames) : binds[b].frames[j].fn = "struct"}

\* The place of the k-th entry of frame j's stackValues in the target.
EntryPath(b, j, k) == AbsPath(binds[b], binds[b].frames[j].stack[k].loc)

IsPrefixOf(p, q) == Len(p) <= Len(q) /\ SubSeq(q, 1, Len(p)) = p

\* C25: whenever a function is resolved, every entry of the ancestor chain
\* is the struct being populated or a struct that encloses it, outermost
\* first; no sibling struct, no sibling slice element and no struct whose
\* binding has finished is in it, however many fields were bound before.
C25_ChainHoldsAncestorsOnly ==
    \A b \in Binds : Started(b) => \A j \in StructFrames(b) :
        LET f == binds[b].frames[j]
        IN  /\ \A k \in 1..Len(f.stack) :
                  /\ IsPrefixOf(EntryPath(b, j, k), AbsPath(binds[b], f.loc))
                  /\ Read(binds[b], f.stack[k].loc).k = "struct"
                  /\ Read(binds[b], f.stack[k].loc).name = f.stack[k].name
            /\ \A k \in 1..(Len(f.stack) - 1) :
                  Len(EntryPath(b, j, k)) <= Len(EntryPath(b, j, k + 1))

\* A function is being resolved in the second element of a slice, after
\* fields of the root and of the element were bound: the chain holds the
\* root and the element, each more than once, and not the first element.
C25_Witness ==
    \E b \in Binds :
        /\ At(b, "struct", "exec")
        /\ Top(binds[b]).tag.FuncName # ""
        /\ \E i \in 1..Len(AbsPath(binds[b], Top(binds[b]).loc)) :
              AbsPath(binds[b], Top(binds[b]).loc)[i] = 2
              /\ TypeAtPath(TypeOf(binds[b].v0),
                            SubSeq(AbsPath(binds[b], Top(binds[b]).loc), 1, i - 1)).kind = "slice"
        /\ Len(Top(binds[b]).stack) >= 4
        /\ \E k \in 1..(Len(Top(binds[b]).stack) - 1) :
              Top(binds[b]).stack[k] = Top(binds[b]).stack[k + 1]
        /\ Top(binds[b]).stack[Len(Top(binds[b]).stack)].loc = Top(binds[b]).loc
        /\ Top(binds[b]).stack[1].loc = Loc(0, <<0>>)

-----------------------------------------------------------------------------
(* C26: a failing bind leaves its partial result in the target *)

\* The path leads to a place of the value: no nil pointer and no missing
\* slice element lies on the way.
RECURSIVE PlaceIn(_, _)
PlaceIn(v, path) ==
    IF path = <<>> THEN TRUE
    ELSE IF v.k = "ptr" THEN ~v.nil /\ PlaceIn(v.e, Tail(path))
    ELSE IF v.k = "struct"
         THEN Head(path) \in 1..Len(v.f) /\ PlaceIn(v.f[Head(path)], Tail(path))
    ELSE IF v.k = "slice"
         THEN Head(path) \in 1..Len(v.e) /\ PlaceIn(v.e[Head(path)], Tail(path))
    ELSE FALSE

\* The places of a value that hold no further places: the scalars, the nil
\* pointers and the nil slices.
RECURSIVE LeafPaths(_)
LeafPaths(v) ==
    CASE v.k = "ptr" -> IF v.nil THEN {<<>>} ELSE {<<0>> \o q : q \in LeafPaths(v.e)}
      [] v.k = "struct" ->
            UNION {{<<i>> \o q : q \in LeafPaths(v.f[i])} : i \in 1..Len(v.f)}
      [] v.k = "slice" ->
            IF v.nil THEN {<<>>}
            ELSE UNION {{<<i>> \o q : q \in LeafPaths(v.e[i])} : i \in 1..Len(v.e)}
      [] OTHER -> {<<>>}

\* What the place held when the bind began: the caller's value, or the zero
\* value where the binder has made the pointee or the slice around it.
OldAt(b, path) ==
    IF PlaceIn(binds[b].v0, path) THEN GetAt(binds[b].v0, path)
    ELSE Zero(TypeAtPath(TypeOf(binds[b].v0), path))

Assigned(b) == {binds[b].assigned[j] : j \in 1..Len(binds[b].assigned)}

\* The target holds the value that the binder has assigned.
KeepsAssigned(b, a) ==
    /\ PlaceIn(binds[b].v, a.path)
    /\ GetAt(binds[b].v, a.path) = a.val

\* The assignment went into a slice that the binder has made for a nil slice
\* field and has not stored: the field is nil as before.
InUnstoredSlice(b, a) ==
    \E q \in Prefixes(a.path) :
        /\ PlaceIn(binds[b].v, q)
        /\ GetAt(binds[b].v, q).k = "slice"
        /\ GetAt(binds[b].v, q).nil
        /\ OldAt(b, q) = GetAt(binds[b].v, q)

\* The leaves of the target that the bind has not assigned (and no method
\* has written) hold what they held before the bind.
UnassignedKeepOld(b) ==
    \A path \in LeafPaths(binds[b].v) :
        \/ \E a \in Assigned(b) : IsPrefixOf(a.path, path)
        \/ WrittenByMethod(b, path)
        \/ GetAt(binds[b].v, path) = OldAt(b, path)

\* C26: when a bind fails at some field the target is not rolled back: every
\* field assigned before the failing field keeps its newly bound value, and
\* every field after the failing field keeps the value it had before the
\* bind.
C26_NoRollback ==
    \A b \in Binds :
        binds[b].status = "error" =>
            /\ \A a \in Assigned(b) :
                  WrittenByMethod(b, a.path) \/ KeepsAssigned(b, a)
            /\ UnassignedKeepOld(b)

\* C26 as the code has it: a field assigned before the failing field keeps
\* its newly bound value unless it lies in an element of a slice that the
\* binder made for a nil slice field, which stays nil when one of its
\* elements fails; every field not assigned keeps the value it had.
C26_NoRollbackButUnstoredSlices ==
    \A b \in Binds :
        binds[b].status = "error" =>
            /\ \A a \in Assigned(b) :
                  \/ WrittenByMethod(b, a.path)
                  \/ KeepsAssigned(b, a)
                  \/ InUnstoredSlice(b, a)
            /\ UnassignedKeepOld(b)

\* A bind that has failed after an assignment, with the new value in the
\* target.
C26_Witness ==
    /\ binds[1].status = "error"
    /\ \E a \in Assigned(1) :
          /\ KeepsAssigned(1, a)
          /\ a.val # OldAt(1, a.path)


-----------------------------------------------------------------------------
(* C27: integers that do not fit the field *)

\* The 64-bit integer that the cast library makes of the terminal result for
\* a field of the kind.
IntOf(v, kind) == IF kind \in UintKinds THEN ToUint64E(v).v ELSE ToInt64E(v).v

\* The result converts to an integer that the integer field cannot hold.
Overflows(v, t) ==
    /\ t.kind \in IntKinds \cup UintKinds
    /\ Convertible(v, t)
    /\ Truncate(t.kind, IntOf(v, t.kind)) # IntOf(v, t.kind)

\* The calls whose terminal result does not fit the integer field it is
\* cast into.
OverflowCalls(b) ==
    {c \in Calls(b) : /\ c.via # "" /\ c.out.k # "sel"
                      /\ Overflows(c.out, FieldType(b, c))}

\* C27: with CastError enabled, when a terminal result converts to an
\* integer that does not fit the width of the signed or unsigned integer
\* field, the bind reports a cast error instead of storing a value reduced
\* modulo 2^width (the field keeps the value it had).
C27_OverflowReportsCastError ==
    \A b \in Binds : \A c \in OverflowCalls(b) :
        Config.CastError =>
            /\ CastFailed(b)
            /\ c.new = c.old

\* What the code does with such a result, with CastError on or off and in
\* both revisions of the caster: the field holds the integer reduced modulo
\* 2^width and no cast error is returned for it.
C27_OverflowStoredModulo ==
    \A b \in Binds : \A c \in OverflowCalls(b) :
        /\ c.new = Num(FieldType(b, c).kind,
                       Truncate(FieldType(b, c).kind, IntOf(c.out, FieldType(b, c).kind)))
        /\ c = LastCall(b) => ~CastFailed(b)

\* 300 cast into an int8 field with CastError enabled.
C27_OverflowReached ==
    /\ Config.CastError
    /\ \E c \in OverflowCalls(1) :
          /\ FieldType(1, c).kind = "int8"
          /\ IntOf(c.out, "int8") = 300
          /\ c.new = Num("int8", 44)


====
